---------------------------- MODULE Spec2Model ----------------------------
(***************************************************************************)
(* TicTacToe: the Board (src/src/logic.py) and the computer players        *)
(* (src/src/ai.py).                                                        *)
(*                                                                         *)
(* Python values are modelled as follows: a cell is one of the strings     *)
(* "", "X", "O"; a move (row, col) is the tuple <<row, col>>; the grid is  *)
(* a function row -> (col -> cell) over 0 .. Size-1, as the list of lists  *)
(* in Board.grid.  None is the string "None" where a mark is expected      *)
(* (check_winner) and the empty tuple where a move is (choose_move).       *)
(***************************************************************************)
EXTENDS Integers, Sequences, FiniteSets, TLC

(***************************************************************************)
(* Constants of the program and bounds of the model.                       *)
(***************************************************************************)
\* Board.__init__(size = 3): the classic board.
Size == 3

\* make_move / is_valid_move are called with coordinates in
\* -CoordSlack .. Size: in range, negative (where Python's indexing would
\* count from the end) and too large.
CoordSlack == 1

\* get_ai_player is called with max_time in 0 .. MaxTimeArg.
MaxTimeArg == 2

\* HardAIPlayer.choose_move is run step by step on the grids of alternating
\* play with at most MaxHardEmpty empty cells.
MaxHardEmpty == 3

Rows == 0 .. (Size - 1)
Marks == {"X", "O"}
CellValues == {"", "X", "O"}
None == "None"
NoMove == << >>
Coords == (0 - CoordSlack) .. Size

\* The cells in the order of `for row in range(size): for col in range(size)`.
CellAt(i) == <<i \div Size, i % Size>>
NumCells == Size * Size

\* 'O' if mark == 'X' else 'X'
Other(m) == IF m = "X" THEN "O" ELSE "X"

(***************************************************************************)
(* Python list indexing.  lst[i] for a list of length Size: a negative      *)
(* index counts from the end, an index outside -Size .. Size-1 raises      *)
(* IndexError.                                                             *)
(***************************************************************************)
IndexError == "IndexError"

PyIndex(i) == IF i >= 0 /\ i < Size THEN i
              ELSE IF i < 0 /\ i >= 0 - Size THEN i + Size
              ELSE 0 - 1

\* grid[row][col]
GetCell(g, row, col) ==
    IF PyIndex(row) < 0 \/ PyIndex(col) < 0 THEN IndexError
    ELSE g[PyIndex(row)][PyIndex(col)]

\* grid[row][col] = value  (only used where GetCell does not raise)
SetCell(g, row, col, value) ==
    [g EXCEPT ![PyIndex(row)][PyIndex(col)] = value]

\* [["" for _ in range(size)] for _ in range(size)]
EmptyGrid == [r \in Rows |-> [c \in Rows |-> ""]]

(***************************************************************************)
(* Board queries (pure functions of the grid).                             *)
(***************************************************************************)
\* Variant of is_full that looks at the first row only.
is_full_first_row(g) == \A c \in Rows : g[0][c] # ""

\* Board.is_full
is_full(g) == \A r \in Rows : \A c \in Rows : g[r][c] # ""

\* Variants of is_valid_move that are wrong on purpose (one without the
\* lower bounds, one without the test for an empty cell); the properties
\* of make_move below fail with them.
is_valid_move_no_lower_bound(g, row, col) ==
    /\ row < Size
    /\ col < Size
    /\ GetCell(g, row, col) = ""

\* is_valid_move without the bounds on col (wrong on purpose)
is_valid_move_col_unchecked(g, row, col) ==
    /\ 0 <= row /\ row < Size
    /\ GetCell(g, row, col) = ""

is_valid_move_ignores_occupied(g, row, col) ==
    /\ 0 <= row /\ row < Size
    /\ 0 <= col /\ col < Size

\* Board.is_valid_move (grid[row][col] is read only with both indices in
\* range, where Python's indexing is plain indexing)
is_valid_move(g, row, col) ==
    /\ 0 <= row /\ row < Size
    /\ 0 <= col /\ col < Size
    /\ g[row][col] = ""

\* all(grid[idx][col] == grid[idx][0] for col in range(size)), and the like
RowUniform(g, idx) == g[idx][0] # "" /\ \A col \in Rows : g[idx][col] = g[idx][0]
ColUniform(g, idx) == g[0][idx] # "" /\ \A row \in Rows : g[row][idx] = g[0][idx]
DiagUniform(g) == g[0][0] # "" /\ \A i \in Rows : g[i][i] = g[0][0]
\* the anti-diagonal compared with the wrong corner (wrong on purpose)
AntiDiagUniform_main_corner(g) ==
    g[0][0] # "" /\ \A i \in Rows : g[i][Size - 1 - i] = g[0][0]

AntiDiagUniform(g) ==
    g[0][Size - 1] # "" /\ \A i \in Rows : g[i][Size - 1 - i] = g[0][Size - 1]

\* The loop of check_winner running from the last index down
RECURSIVE ScanLines_descending(_, _)
ScanLines_descending(g, idx) ==
    IF idx < Size THEN
        IF RowUniform(g, Size - 1 - idx) THEN g[Size - 1 - idx][0]
        ELSE IF ColUniform(g, Size - 1 - idx) THEN g[0][Size - 1 - idx]
        ELSE ScanLines_descending(g, idx + 1)
    ELSE IF DiagUniform(g) THEN g[0][0]
    ELSE IF AntiDiagUniform(g) THEN g[0][Size - 1]
    ELSE None

\* The loop `for idx in range(size)` of check_winner from idx on, then the
\* two diagonals: row idx is tested before column idx.
RECURSIVE ScanLines(_, _)
ScanLines(g, idx) ==
    IF idx < Size THEN
        IF RowUniform(g, idx) THEN g[idx][0]
        ELSE IF ColUniform(g, idx) THEN g[0][idx]
        ELSE ScanLines(g, idx + 1)
    ELSE IF DiagUniform(g) THEN g[0][0]
    ELSE IF AntiDiagUniform(g) THEN g[0][Size - 1]
    ELSE None

\* Board.check_winner
check_winner(g) == ScanLines(g, 0)

\* Board.get_empty_cells, as the sequence of cells in row-major order
RECURSIVE EmptyFrom(_, _)
EmptyFrom(g, i) ==
    IF i >= NumCells THEN << >>
    ELSE IF g[CellAt(i)[1]][CellAt(i)[2]] = ""
         THEN <<CellAt(i)>> \o EmptyFrom(g, i + 1)
         ELSE EmptyFrom(g, i + 1)

\* get_empty_cells column by column (wrong on purpose)
RECURSIVE EmptyFromByColumn(_, _)
EmptyFromByColumn(g, i) ==
    IF i >= NumCells THEN << >>
    ELSE IF g[i % Size][i \div Size] = ""
         THEN <<<<i % Size, i \div Size>>>> \o EmptyFromByColumn(g, i + 1)
         ELSE EmptyFromByColumn(g, i + 1)

get_empty_cells_by_column(g) == EmptyFromByColumn(g, 0)

get_empty_cells(g) == EmptyFrom(g, 0)

\* Number of cells of grid g holding m
Count(g, m) == Cardinality({rc \in Rows \X Rows : g[rc[1]][rc[2]] = m})

\* The grids of alternating play, X first: as many X as O, or one X more.
\* make_move and reset produce no other grid.
PlayGrids ==
    {g \in [Rows -> [Rows -> CellValues]] : Count(g, "X") - Count(g, "O") \in {0, 1}}

\* The mark whose turn it is on a grid of alternating play
ToMove(g) == IF Count(g, "X") = Count(g, "O") THEN "X" ELSE "O"

(***************************************************************************)
(* HardAIPlayer (minimax) with no time limit (max_time = 0).               *)
(*                                                                         *)
(* float('-inf') and float('inf') are modelled as integers below and above *)
(* every score.  With max_time = 0 minimax reads the grid, is_maximizing   *)
(* and self.mark only, and restores the grid before it returns: it is a    *)
(* function of these.  Its values are computed by the code's own           *)
(* recurrence, the positions with fewer empty cells first, so that the     *)
(* value of a recursive call is looked up rather than recomputed.          *)
(***************************************************************************)
NegInf == 0 - 2
PosInf == 2

\* minimax's update of best_score with a child's score (ai.py 158-163)
\* the update of a node that maximises also on the opponent's turn (wrong
\* on purpose)
Combine_always_max(is_maximizing, score, best_score) ==
    IF score > best_score THEN score ELSE best_score

Combine(is_maximizing, score, best_score) ==
    IF is_maximizing
    THEN (IF score > best_score THEN score ELSE best_score)
    ELSE (IF score < best_score THEN score ELSE best_score)

\* the update of choose_move with >= for > (wrong on purpose)
RootUpdate_keeps_last(score, cell, bst) ==
    IF score >= bst[1] THEN <<score, cell>> ELSE bst

\* choose_move keeping the first move it tried, whatever the later scores
RootUpdate_keeps_first(score, cell, bst) ==
    IF bst[2] = NoMove THEN <<score, cell>> ELSE bst

\* choose_move's update of <<best_score, best_move>> with the score of the
\* move to `cell` (ai.py 124-126)
RootUpdate(score, cell, bst) ==
    IF score > bst[1] THEN <<score, cell>> ELSE bst

\* minimax returns at once on a grid with a winner or without an empty
\* cell (ai.py 134-140), with this score:
IsTerminal(g) == check_winner(g) # None \/ is_full(g)

\* the score of a finished position with every line counted as a win
TerminalScore_any_line_wins(g, m) ==
    LET winner == check_winner(g)
    IN  IF winner # None THEN 1
        ELSE 0

TerminalScore(g, m) ==
    LET winner == check_winner(g)
    IN  IF winner = m THEN 1
        ELSE IF winner # None THEN 0 - 1
        ELSE 0

\* The loop of minimax (ai.py 150-164) from cell i on with the running
\* best_score; sub[g2] is what the recursive call returns on grid g2.
RECURSIVE MinimaxLoop(_, _, _, _, _, _)
MinimaxLoop(g, is_maximizing, m, i, best_score, sub) ==
    IF i >= NumCells THEN best_score
    ELSE IF is_valid_move(g, CellAt(i)[1], CellAt(i)[2]) THEN
        LET current_mark == IF is_maximizing THEN m ELSE Other(m)
            score == sub[SetCell(g, CellAt(i)[1], CellAt(i)[2], current_mark)]
        IN  MinimaxLoop(g, is_maximizing, m, i + 1,
                        Combine(is_maximizing, score, best_score), sub)
    ELSE MinimaxLoop(g, is_maximizing, m, i + 1, best_score, sub)

\* The body of minimax (ai.py 134-164) at one node
MinimaxNode(g, is_maximizing, m, sub) ==
    IF IsTerminal(g) THEN TerminalScore(g, m)
    ELSE MinimaxLoop(g, is_maximizing, m, 0,
                     IF is_maximizing THEN NegInf ELSE PosInf, sub)

\* The grids of alternating play with k empty cells, and the mark that
\* moves on them (X moves first)
LevelGrids == [k \in 0 .. NumCells |-> {g \in PlayGrids : Count(g, "") = k}]
MoverAt(k) == IF (NumCells - k) % 2 = 0 THEN "X" ELSE "O"

\* minimax(board, is_maximizing) of the player `mark` on every grid of
\* alternating play with at most k empty cells, where is_maximizing says
\* whether it is mark's turn (as it is in every call choose_move makes when
\* it is called on mark's turn).  The merge (@@) tabulates each level.
RECURSIVE MinimaxUpTo(_, _)
MinimaxUpTo(m, k) ==
    IF k = 0
    THEN [g \in LevelGrids[k] |-> MinimaxNode(g, MoverAt(k) = m, m, << >>)] @@ << >>
    ELSE LET sub == MinimaxUpTo(m, k - 1)
         IN  [g \in LevelGrids[k] |-> MinimaxNode(g, MoverAt(k) = m, m, sub)] @@ sub

MinimaxX == MinimaxUpTo("X", NumCells)
MinimaxO == MinimaxUpTo("O", NumCells)

\* HardAIPlayer.minimax on a grid where is_maximizing = (mark is to move)
minimax(g, m) == IF m = "X" THEN MinimaxX[g] ELSE MinimaxO[g]

\* The loop of HardAIPlayer.choose_move (ai.py 118-126) from cell i on, with
\* the running <<best_score, best_move>>.
RECURSIVE HardLoop(_, _, _, _)
HardLoop(g, m, i, bst) ==
    IF i >= NumCells THEN bst[2]
    ELSE IF is_valid_move(g, CellAt(i)[1], CellAt(i)[2]) THEN
        LET score == minimax(SetCell(g, CellAt(i)[1], CellAt(i)[2], m), m)
        IN  HardLoop(g, m, i + 1, RootUpdate(score, CellAt(i), bst))
    ELSE HardLoop(g, m, i + 1, bst)

\* HardAIPlayer.choose_move with max_time = 0, called on mark's turn
HardChooseMove(g, m) == HardLoop(g, m, 0, <<NegInf, NoMove>>)

(***************************************************************************)
(* State.                                                                  *)
(***************************************************************************)
VARIABLES
    grid,       \* Board.grid
    turn,       \* Board.turn
    op,         \* the last call made on the board: <<name, arguments...>>
    ret,        \* what the last call returned
    mark,       \* BaseAIPlayer.mark
    level,      \* the class of the AI player: "easy", "medium" or "hard"
    max_time,   \* BaseAIPlayer.max_time (0: no limit)
    pc,         \* where choose_move is: "idle" before the call, "done" after;
                \* "raised" once an exception has left GameGUI.run
    pos,        \* choose_move's loop position: the index of (row, col)
    best,       \* HardAIPlayer.choose_move's <<best_score, best_move>>
    stack,      \* the minimax calls in progress, the innermost last
    expired,    \* (time.time() - start_time) > max_time has been found true
    grid0,      \* the grid when choose_move was called
    turn0,      \* the turn when choose_move was called
    state,          \* GameGUI.state: the screen shown
    play_mode,      \* GameGUI.play_mode
    board_message,  \* GameGUI.board_message
    updates,        \* the update_player_score calls made since reset_game:
                    \* <<index into show_board_names, result>>, in call order
    scores,         \* the records in the file of the ScoresManager, in file order
    level_selected, \* GameGUI.level_selected: an index into GameGUI.levels
    level_rects,    \* GameGUI.level_rects: "unassigned" until draw_vs_machine
    square_rects,   \* GameGUI.square_rects: "unassigned" until draw_board
    continue_rect,  \* GameGUI.continue_rect: "None" or "Rect"
    back_rect       \* GameGUI.back_rect: "None" or "Rect"

boardVars == <<grid, turn>>
engineVars == <<mark, level, max_time, pc, pos, best, stack, expired, grid0, turn0>>
rectVars == <<level_rects, square_rects, continue_rect, back_rect>>
guiVars == <<state, play_mode, board_message, updates, scores, level_selected,
             rectVars>>
vars == <<grid, turn, op, ret, mark, level, max_time, pc, pos, best, stack, expired,
          grid0, turn0, state, play_mode, board_message, updates, scores,
          level_selected, level_rects, square_rects, continue_rect, back_rect>>

Levels == {"easy", "medium", "hard"}

\* Board.__init__
BoardInit ==
    /\ grid = EmptyGrid
    /\ turn = "X"

\* choose_move has not been called
EngineIdle ==
    /\ pc = "idle"
    /\ pos = 0
    /\ best = <<NegInf, NoMove>>
    /\ stack = << >>
    /\ expired = FALSE
    /\ grid0 = grid
    /\ turn0 = turn

\* GameGUI.__init__: the menu is shown, no mode is chosen, no message
GuiIdle ==
    /\ state = "menu"
    /\ play_mode = "None"
    /\ board_message = ""
    /\ updates = << >>
    /\ scores = << >>
    /\ level_selected = 0
    /\ level_rects = "unassigned"
    /\ square_rects = "unassigned"
    /\ continue_rect = "None"
    /\ back_rect = "None"

(***************************************************************************)
(* The Board's operations, called in any order with any arguments.         *)
(***************************************************************************)
\* main(): Board(size=3) and get_ai_player(level="easy", mark="O", max_time=1.0)
Init ==
    /\ BoardInit
    /\ op = <<"init">>
    /\ ret = None
    /\ mark = "O"
    /\ level = "easy"
    /\ max_time = 1
    /\ EngineIdle
    /\ GuiIdle

\* make_move without the flip of the turn (wrong on purpose)
make_move_keeps_turn(row, col) ==
    IF is_valid_move(grid, row, col)
    THEN /\ grid' = SetCell(grid, row, col, turn)
         /\ turn' = turn
         /\ ret' = TRUE
    ELSE /\ UNCHANGED <<grid, turn>>
         /\ ret' = FALSE

\* Board.make_move
make_move(row, col) ==
    IF is_valid_move(grid, row, col)
    THEN /\ grid' = SetCell(grid, row, col, turn)
         /\ turn' = Other(turn)
         /\ ret' = TRUE
    ELSE /\ UNCHANGED <<grid, turn>>
         /\ ret' = FALSE

\* reset without the assignment to turn (wrong on purpose)
reset_keeps_turn ==
    /\ grid' = EmptyGrid
    /\ turn' = turn

\* Board.reset
reset ==
    /\ grid' = EmptyGrid
    /\ turn' = "X"

MakeMove ==
    \E row \in Coords, col \in Coords :
        /\ make_move(row, col)
        /\ op' = <<"make_move", row, col>>
        /\ UNCHANGED <<engineVars, guiVars>>

Reset ==
    /\ reset
    /\ op' = <<"reset">>
    /\ ret' = None
    /\ UNCHANGED <<engineVars, guiVars>>

Next == MakeMove \/ Reset

Spec == Init /\ [][Next]_vars

(***************************************************************************)
(* One call of choose_move, step by step.                                  *)
(*                                                                         *)
(* The call is made on a board that make_move and reset can produce or    *)
(* that a test sets up, for either mark.  With max_time > 0 the test                                *)
(* (time.time() - start_time) > self.max_time at the entry of minimax may  *)
(* become true at any entry; the clock does not go back, so that it stays  *)
(* true from then on.  RandomAIPlayer and MediumAIPlayer read max_time     *)
(* only to sleep; they are run with the max_time of main().                *)
(***************************************************************************)
\* The first index j >= i of a cell for which is_valid_move holds, NumCells
\* when there is none: the cells the loops
\*   for row in range(size): for col in range(size): if is_valid_move(...)
\* skip.
RECURSIVE NextValid(_, _)
NextValid(g, i) ==
    IF i >= NumCells THEN NumCells
    ELSE IF is_valid_move(g, CellAt(i)[1], CellAt(i)[2]) THEN i
    ELSE NextValid(g, i + 1)

\* grid[row][col] = value for the cell of index i
Place(g, i, value) == SetCell(g, CellAt(i)[1], CellAt(i)[2], value)

\* The grid written as a list of rows, as in the tests
GridOf(rows) == [r \in Rows |-> [c \in Rows |-> rows[r + 1][c + 1]]]

\* test_hard_ai_plays_optimal
HardTestGrid == GridOf(<< <<"X", "O", "X">>, <<"O", "X", "">>, <<"", "", "O">> >>)

\* test_medium_ai_blocks_or_wins, first grid (two O and one X: a grid the
\* test assigns, which no play produces)
MediumBlockGrid == GridOf(<< <<"O", "O", "">>, <<"X", "", "">>, <<"", "", "">> >>)

\* test_medium_ai_blocks_or_wins, second grid
MediumWinGrid == GridOf(<< <<"X", "X", "">>, <<"O", "", "O">>, <<"", "", "">> >>)

\* The boards choose_move is called on: the grids of alternating play (for
\* HardAIPlayer those with few empty cells) and the grids of the tests.
EngineGrids(lv) ==
    IF lv = "hard" THEN {g \in PlayGrids : Count(g, "") <= MaxHardEmpty}
    ELSE PlayGrids \cup {MediumBlockGrid, MediumWinGrid}

\* board.turn at the call: the mark to move when the grid comes from play,
\* or "X" whatever the grid (the tests assign board.grid and leave
\* board.turn at "X")
EngineTurns(g) == IF g \in PlayGrids THEN {"X", ToMove(g)} ELSE {"X"}

EngineInit ==
    /\ level \in Levels
    /\ grid \in EngineGrids(level)
    /\ turn \in EngineTurns(grid)
    /\ mark \in Marks
    /\ max_time \in IF level = "hard" THEN {0, 1} ELSE {1}
    /\ op = <<"init">>
    /\ ret = NoMove
    /\ EngineIdle
    /\ GuiIdle

\* available_moves collected without the test is_valid_move (wrong on
\* purpose)
RandomResults_any_cell(g) ==
    IF is_full(g) THEN {NoMove} ELSE Rows \X Rows

\* The available moves of RandomAIPlayer.choose_move and what it returns:
\* None without an available move, else random.choice(available_moves)
RandomResults(g) ==
    LET available_moves == {rc \in Rows \X Rows : is_valid_move(g, rc[1], rc[2])}
    IN  IF available_moves = {} THEN {NoMove} ELSE available_moves

\* RandomAIPlayer.choose_move
RandomChooseMove ==
    /\ pc = "idle"
    /\ level = "easy"
    /\ ret' \in RandomResults(grid)
    /\ pc' = "done"
    /\ op' = <<"choose_move">>
    /\ grid0' = grid
    /\ turn0' = turn
    /\ UNCHANGED <<grid, turn, mark, level, max_time, pos, best, stack, expired, guiVars>>

\* MediumAIPlayer.choose_move that starts with the loop that blocks (wrong
\* on purpose)
MediumCall_block_first ==
    /\ pc = "idle"
    /\ level = "medium"
    /\ pc' = "block_scan"
    /\ pos' = 0
    /\ op' = <<"choose_move">>
    /\ grid0' = grid
    /\ turn0' = turn
    /\ UNCHANGED <<grid, turn, ret, mark, level, max_time, best, stack, expired, guiVars>>

\* MediumAIPlayer.choose_move is called (ai.py 71-72)
MediumCall ==
    /\ pc = "idle"
    /\ level = "medium"
    /\ pc' = "win_scan"
    /\ pos' = 0
    /\ op' = <<"choose_move">>
    /\ grid0' = grid
    /\ turn0' = turn
    /\ UNCHANGED <<grid, turn, ret, mark, level, max_time, best, stack, expired, guiVars>>

\* The loops of MediumAIPlayer.choose_move with the own mark placed in
\* the second loop too (wrong on purpose)
MediumScan_block_places_own ==
    /\ pc \in {"win_scan", "block_scan"}
    /\ LET j == NextValid(grid, pos)
       IN  IF j < NumCells
           THEN /\ grid' = Place(grid, j, mark)
                /\ pos' = j
                /\ pc' = IF pc = "win_scan" THEN "win_try" ELSE "block_try"
           ELSE /\ grid' = grid
                /\ pos' = 0
                /\ pc' = IF pc = "win_scan" THEN "block_scan" ELSE "fallback"
    /\ UNCHANGED <<turn, op, ret, mark, level, max_time, best, stack, expired, grid0, turn0, guiVars>>

\* The loops of MediumAIPlayer.choose_move up to the next placement
\* (ai.py 75-78 and 85-88): the own mark in the first loop, the opponent's
\* in the second; after the second loop, the random move.
MediumScan ==
    /\ pc \in {"win_scan", "block_scan"}
    /\ LET j == NextValid(grid, pos)
       IN  IF j < NumCells
           THEN /\ grid' = Place(grid, j, IF pc = "win_scan" THEN mark ELSE Other(mark))
                /\ pos' = j
                /\ pc' = IF pc = "win_scan" THEN "win_try" ELSE "block_try"
           ELSE /\ grid' = grid
                /\ pos' = 0
                /\ pc' = IF pc = "win_scan" THEN "block_scan" ELSE "fallback"
    /\ UNCHANGED <<turn, op, ret, mark, level, max_time, best, stack, expired, grid0, turn0, guiVars>>

\* The test of the placed mark with a return before the undo (wrong on
\* purpose)
MediumTry_returns_before_undo ==
    /\ pc \in {"win_try", "block_try"}
    /\ LET placed == IF pc = "win_try" THEN mark ELSE Other(mark)
       IN  IF check_winner(grid) = placed
           THEN /\ grid' = grid
                /\ ret' = CellAt(pos)
                /\ pc' = "done"
                /\ pos' = pos
           ELSE /\ grid' = Place(grid, pos, "")
                /\ ret' = ret
                /\ pc' = IF pc = "win_try" THEN "win_scan" ELSE "block_scan"
                /\ pos' = pos + 1
    /\ UNCHANGED <<turn, op, mark, level, max_time, best, stack, expired, grid0, turn0, guiVars>>

\* The test of the placed mark with no undo on the path without a match
\* (wrong on purpose)
MediumTry_keeps_miss ==
    /\ pc \in {"win_try", "block_try"}
    /\ LET placed == IF pc = "win_try" THEN mark ELSE Other(mark)
       IN  IF check_winner(grid) = placed
           THEN /\ grid' = Place(grid, pos, "")
                /\ ret' = CellAt(pos)
                /\ pc' = "done"
                /\ pos' = pos
           ELSE /\ grid' = grid
                /\ ret' = ret
                /\ pc' = IF pc = "win_try" THEN "win_scan" ELSE "block_scan"
                /\ pos' = pos + 1
    /\ UNCHANGED <<turn, op, mark, level, max_time, best, stack, expired, grid0, turn0, guiVars>>

\* The test of the placed mark and the undo (ai.py 79-82 and 89-92)
MediumTry ==
    /\ pc \in {"win_try", "block_try"}
    /\ LET placed == IF pc = "win_try" THEN mark ELSE Other(mark)
       IN  IF check_winner(grid) = placed
           THEN /\ grid' = Place(grid, pos, "")
                /\ ret' = CellAt(pos)
                /\ pc' = "done"
                /\ pos' = pos
           ELSE /\ grid' = Place(grid, pos, "")
                /\ ret' = ret
                /\ pc' = IF pc = "win_try" THEN "win_scan" ELSE "block_scan"
                /\ pos' = pos + 1
    /\ UNCHANGED <<turn, op, mark, level, max_time, best, stack, expired, grid0, turn0, guiVars>>

\* MediumAIPlayer.choose_move that drops the random move (wrong on purpose)
MediumFallback_no_move ==
    /\ pc = "fallback"
    /\ ret' = NoMove
    /\ pc' = "done"
    /\ UNCHANGED <<grid, turn, op, mark, level, max_time, pos, best, stack, expired, grid0, turn0, guiVars>>

\* The random move of MediumAIPlayer.choose_move (ai.py 95-103)
MediumFallback ==
    /\ pc = "fallback"
    /\ ret' \in RandomResults(grid)
    /\ pc' = "done"
    /\ UNCHANGED <<grid, turn, op, mark, level, max_time, pos, best, stack, expired, grid0, turn0, guiVars>>

\* HardAIPlayer.choose_move with best_score starting at 0 (wrong on purpose)
HardCall_best_zero ==
    /\ pc = "idle"
    /\ level = "hard"
    /\ pc' = "root"
    /\ pos' = 0
    /\ best' = <<0, NoMove>>
    /\ stack' = << >>
    /\ expired' = FALSE
    /\ op' = <<"choose_move">>
    /\ grid0' = grid
    /\ turn0' = turn
    /\ UNCHANGED <<grid, turn, ret, mark, level, max_time, guiVars>>

\* HardAIPlayer.choose_move is called (ai.py 113-115)
HardCall ==
    /\ pc = "idle"
    /\ level = "hard"
    /\ pc' = "root"
    /\ pos' = 0
    /\ best' = <<NegInf, NoMove>>
    /\ stack' = << >>
    /\ expired' = FALSE
    /\ op' = <<"choose_move">>
    /\ grid0' = grid
    /\ turn0' = turn
    /\ UNCHANGED <<grid, turn, ret, mark, level, max_time, guiVars>>

\* The loop of HardAIPlayer.choose_move placing the mark of board.turn
\* for self.mark (wrong on purpose)
HardNext_places_turn ==
    /\ pc = "root"
    /\ LET j == NextValid(grid, pos)
       IN  IF j < NumCells
           THEN /\ grid' = Place(grid, j, turn)
                /\ pos' = j
                /\ pc' = "enter"
                /\ ret' = ret
           ELSE /\ grid' = grid
                /\ pos' = pos
                /\ pc' = "done"
                /\ ret' = best[2]
    /\ UNCHANGED <<turn, op, mark, level, max_time, best, stack, expired, grid0, turn0, guiVars>>

\* The loop of HardAIPlayer.choose_move up to the next call of minimax
\* (ai.py 118-122), or to its return (ai.py 127)
HardNext ==
    /\ pc = "root"
    /\ LET j == NextValid(grid, pos)
       IN  IF j < NumCells
           THEN /\ grid' = Place(grid, j, mark)
                /\ pos' = j
                /\ pc' = "enter"
                /\ ret' = ret
           ELSE /\ grid' = grid
                /\ pos' = pos
                /\ pc' = "done"
                /\ ret' = best[2]
    /\ UNCHANGED <<turn, op, mark, level, max_time, best, stack, expired, grid0, turn0, guiVars>>

\* minimax returning to a caller that tries the same cell again (wrong on
\* purpose)
Return_same_cell(score, stk) ==
    IF stk = << >>
    THEN /\ grid' = Place(grid, pos, "")
         /\ best' = RootUpdate(score, CellAt(pos), best)
         /\ pos' = pos
         /\ pc' = "root"
         /\ stack' = stk
    ELSE LET n == Len(stk)
             f == stk[n]
         IN  /\ grid' = Place(grid, f.pos, "")
             /\ stack' = [stk EXCEPT ![n] =
                            [is_maximizing |-> f.is_maximizing,
                             best_score |-> Combine(f.is_maximizing, score, f.best_score),
                             pos |-> f.pos]]
             /\ pc' = "loop"
             /\ UNCHANGED <<best, pos>>

\* minimax returning to a caller that leaves its placement on the board
\* when the caller is minimax (wrong on purpose)
Return_inner_keeps_mark(score, stk) ==
    IF stk = << >>
    THEN /\ grid' = Place(grid, pos, "")
         /\ best' = RootUpdate(score, CellAt(pos), best)
         /\ pos' = pos + 1
         /\ pc' = "root"
         /\ stack' = stk
    ELSE LET n == Len(stk)
             f == stk[n]
         IN  /\ grid' = grid
             /\ stack' = [stk EXCEPT ![n] =
                            [is_maximizing |-> f.is_maximizing,
                             best_score |-> Combine(f.is_maximizing, score, f.best_score),
                             pos |-> f.pos + 1]]
             /\ pc' = "loop"
             /\ UNCHANGED <<best, pos>>

\* minimax returns score to its caller, whose calls in progress are stk:
\* the caller undoes its placement and takes the score into account, in
\* choose_move (ai.py 123-126) or in minimax (ai.py 155-163).
Return(score, stk) ==
    IF stk = << >>
    THEN /\ grid' = Place(grid, pos, "")
         /\ best' = RootUpdate(score, CellAt(pos), best)
         /\ pos' = pos + 1
         /\ pc' = "root"
         /\ stack' = stk
    ELSE LET n == Len(stk)
             f == stk[n]
         IN  /\ grid' = Place(grid, f.pos, "")
             /\ stack' = [stk EXCEPT ![n] =
                            [is_maximizing |-> f.is_maximizing,
                             best_score |-> Combine(f.is_maximizing, score, f.best_score),
                             pos |-> f.pos + 1]]
             /\ pc' = "loop"
             /\ UNCHANGED <<best, pos>>

\* The is_maximizing argument of the call of minimax that is being entered:
\* False from choose_move, not is_maximizing from minimax
EnteringMaximizing ==
    IF stack = << >> THEN FALSE ELSE ~stack[Len(stack)].is_maximizing

\* The entry of minimax with the time limit exceeded, where a position that
\* ends the game still returns its score (wrong on purpose)
MinimaxTimeUp_scores_terminal ==
    /\ pc = "enter"
    /\ max_time > 0
    /\ expired' = TRUE
    /\ Return(IF IsTerminal(grid) THEN TerminalScore(grid, mark) ELSE 0, stack)
    /\ UNCHANGED <<turn, op, ret, mark, level, max_time, grid0, turn0, guiVars>>

\* The entry of minimax with the time limit exceeded (ai.py 131-132)
MinimaxTimeUp ==
    /\ pc = "enter"
    /\ max_time > 0
    /\ expired' = TRUE
    /\ Return(0, stack)
    /\ UNCHANGED <<turn, op, ret, mark, level, max_time, grid0, turn0, guiVars>>

\* The entry of minimax within the time limit (ai.py 134-148): a position
\* that ends the game returns its score, another one starts its loop.
MinimaxEnter ==
    /\ pc = "enter"
    /\ ~expired
    /\ IF IsTerminal(grid)
       THEN Return(TerminalScore(grid, mark), stack)
       ELSE /\ stack' = Append(stack,
                          [is_maximizing |-> EnteringMaximizing,
                           best_score |-> IF EnteringMaximizing THEN NegInf ELSE PosInf,
                           pos |-> 0])
            /\ pc' = "loop"
            /\ UNCHANGED <<grid, best, pos>>
    /\ UNCHANGED <<turn, op, ret, mark, level, max_time, expired, grid0, turn0, guiVars>>

\* The loop of minimax up to its next recursive call (ai.py 150-154), or to
\* its return (ai.py 164)
MinimaxNext ==
    /\ pc = "loop"
    /\ LET n == Len(stack)
           f == stack[n]
           j == NextValid(grid, f.pos)
       IN  IF j < NumCells
           THEN /\ grid' = Place(grid, j, IF f.is_maximizing THEN mark ELSE Other(mark))
                /\ stack' = [stack EXCEPT ![n].pos = j]
                /\ pc' = "enter"
                /\ UNCHANGED <<best, pos>>
           ELSE Return(f.best_score, SubSeq(stack, 1, n - 1))
    /\ UNCHANGED <<turn, op, ret, mark, level, max_time, expired, grid0, turn0, guiVars>>

\* The caller makes the move choose_move has returned:
\* self.board.make_move(ai_row, ai_col) when move is not None
\* (gui.py 431-433)
ApplyChosenMove ==
    /\ pc = "done"
    /\ ret # NoMove
    /\ make_move(ret[1], ret[2])
    /\ op' = <<"make_move", ret[1], ret[2]>>
    /\ pc' = "applied"
    /\ UNCHANGED <<mark, level, max_time, pos, best, stack, expired, grid0, turn0, guiVars>>

EngineNext ==
    \/ ApplyChosenMove
    \/ RandomChooseMove
    \/ MediumCall
    \/ MediumScan
    \/ MediumTry
    \/ MediumFallback
    \/ HardCall
    \/ HardNext
    \/ MinimaxTimeUp
    \/ MinimaxEnter
    \/ MinimaxNext

EngineSpec == EngineInit /\ [][EngineNext]_vars

(***************************************************************************)
(* The queries of Board on any grid at all, also one no play produces (the *)
(* tests assign board.grid): one call on each grid, is_valid_move with any *)
(* coordinates of Coords.                                                  *)
(***************************************************************************)
GridInit ==
    /\ grid \in [Rows -> [Rows -> CellValues]]
    /\ turn = "X"
    /\ op = <<"init">>
    /\ ret = None
    /\ mark = "O"
    /\ level = "easy"
    /\ max_time = 1
    /\ EngineIdle
    /\ GuiIdle

CheckWinner ==
    /\ op = <<"init">>
    /\ ret' = check_winner(grid)
    /\ op' = <<"check_winner">>
    /\ UNCHANGED <<grid, turn>>
    /\ UNCHANGED <<engineVars, guiVars>>

IsValidMove ==
    /\ op = <<"init">>
    /\ \E row \in Coords, col \in Coords :
        /\ ret' = is_valid_move(grid, row, col)
        /\ op' = <<"is_valid_move", row, col>>
    /\ UNCHANGED <<grid, turn>>
    /\ UNCHANGED <<engineVars, guiVars>>

GetEmptyCells ==
    /\ op = <<"init">>
    /\ ret' = get_empty_cells(grid)
    /\ op' = <<"get_empty_cells">>
    /\ UNCHANGED <<grid, turn>>
    /\ UNCHANGED <<engineVars, guiVars>>

IsFull ==
    /\ op = <<"init">>
    /\ ret' = is_full(grid)
    /\ op' = <<"is_full">>
    /\ UNCHANGED <<grid, turn>>
    /\ UNCHANGED <<engineVars, guiVars>>

GridNext == CheckWinner \/ IsValidMove \/ GetEmptyCells \/ IsFull

GridSpec == GridInit /\ [][GridNext]_vars

(***************************************************************************)
(* A game of HardAIPlayer without time limit against any opponent: the     *)
(* opponent places its mark on any empty cell, the AI's moves are those    *)
(* choose_move returns; mark is the AI's (X moves first).  As in           *)
(* GameGUI.handle_events, no move is made once there is a winner or the    *)
(* board is full.                                                          *)
(***************************************************************************)
GameInit ==
    /\ BoardInit
    /\ op = <<"init">>
    /\ ret = None
    /\ mark \in Marks
    /\ level = "hard"
    /\ max_time = 0
    /\ EngineIdle
    /\ GuiIdle

GameOver == check_winner(grid) # None \/ is_full(grid)

OpponentMove ==
    /\ ~GameOver
    /\ turn = Other(mark)
    /\ \E row \in Rows, col \in Rows :
        /\ is_valid_move(grid, row, col)
        /\ make_move(row, col)
        /\ op' = <<"make_move", row, col>>
    /\ UNCHANGED <<engineVars, guiVars>>

\* move = self.ai.choose_move(self.board); if move is not None:
\* self.board.make_move(ai_row, ai_col)   (gui.py 430-433)
AIMove ==
    /\ ~GameOver
    /\ turn = mark
    /\ LET move == HardChooseMove(grid, mark)
       IN  /\ move # NoMove
           /\ make_move(move[1], move[2])
           /\ op' = <<"ai_move", move[1], move[2]>>
    /\ UNCHANGED <<engineVars, guiVars>>

GameNext == OpponentMove \/ AIMove

GameSpec == GameInit /\ [][GameNext]_vars

(***************************************************************************)
(* get_ai_player, called with the three levels and with other labels.      *)
(* What a call does is <<"return", value>> or <<"raise", exception>>; an   *)
(* AI player is the record of its class and attributes.                    *)
(***************************************************************************)
Labels == Levels \cup {"", "Easy", "HARD", "expert", "impossible", "random"}

\* BaseAIPlayer.__init__, for the class cls
NewPlayer(cls, m, t) == [class |-> cls, mark |-> m, max_time |-> t]

\* get_ai_player with RandomAIPlayer for every other label (wrong on
\* purpose)
get_ai_player_default_easy(lv, m, t) ==
    IF lv = "medium" THEN <<"return", NewPlayer("MediumAIPlayer", m, t)>>
    ELSE IF lv = "hard" THEN <<"return", NewPlayer("HardAIPlayer", m, t)>>
    ELSE <<"return", NewPlayer("RandomAIPlayer", m, t)>>

\* get_ai_player
get_ai_player(lv, m, t) ==
    IF lv = "easy" THEN <<"return", NewPlayer("RandomAIPlayer", m, t)>>
    ELSE IF lv = "medium" THEN <<"return", NewPlayer("MediumAIPlayer", m, t)>>
    ELSE IF lv = "hard" THEN <<"return", NewPlayer("HardAIPlayer", m, t)>>
    ELSE <<"raise", "ValueError">>

FactoryInit ==
    /\ BoardInit
    /\ op = <<"init">>
    /\ ret = NoMove
    /\ level \in Labels
    /\ mark \in Marks
    /\ max_time \in 0 .. MaxTimeArg
    /\ EngineIdle
    /\ GuiIdle

GetAIPlayer ==
    /\ op = <<"init">>
    /\ ret' = get_ai_player(level, mark, max_time)
    /\ op' = <<"get_ai_player", level, mark, max_time>>
    /\ UNCHANGED <<grid, turn>>
    /\ UNCHANGED <<engineVars, guiVars>>

FactoryNext == GetAIPlayer

FactorySpec == FactoryInit /\ [][FactoryNext]_vars

(***************************************************************************)
(* A game taken up from any position of legal play, the AI (HardAIPlayer   *)
(* with max_time = 0) to move: the positions are those that placements of  *)
(* X and O in turn reach from the empty board when no placement follows a  *)
(* complete line or a full board.                                          *)
(***************************************************************************)
\* the grids reached by at most n placements
RECURSIVE ReachedUpTo(_)
ReachedUpTo(n) ==
    IF n = 0 THEN {EmptyGrid}
    ELSE LET sub == ReachedUpTo(n - 1)
             last == {h \in sub : Count(h, "") = NumCells - (n - 1) /\ ~IsTerminal(h)}
         IN  sub \cup UNION {{Place(g, i, ToMove(g)) : i \in {j \in 0 .. NumCells - 1 :
                                                              GetCell(g, CellAt(j)[1], CellAt(j)[2]) = ""}} :
                             g \in last}

PositionInit ==
    /\ grid \in {g \in ReachedUpTo(NumCells) : ~IsTerminal(g)}
    /\ turn = ToMove(grid)
    /\ mark = turn
    /\ op = <<"init">>
    /\ ret = None
    /\ level = "hard"
    /\ max_time = 0
    /\ EngineIdle
    /\ GuiIdle

PositionSpec == PositionInit /\ [][GameNext]_vars

(***************************************************************************)
(* The ScoresManager.  The file is the variable scores: load_scores reads  *)
(* it and save_scores replaces it.  updates is the log of the calls of     *)
(* update_player_score made so far, <<name, result>> in call order.        *)
(***************************************************************************)
MaxUpdates == 3
MaxTopN == 3
Names == {"Ann", "Bob", "Cy"}
ResultLabels == {"win", "loss", "draw"}

\* the index of the first record of the name nm in the list sc, 0 if none
\* (for player in scores: if player["name"] == name)
RECURSIVE FindFrom(_, _, _)
FindFrom(sc, nm, i) ==
    IF i > Len(sc) THEN 0
    ELSE IF sc[i].name = nm THEN i
    ELSE FindFrom(sc, nm, i + 1)

FindPlayer(sc, nm) == FindFrom(sc, nm, 1)

\* new_record of get_player_score
ZeroRecord(nm) ==
    [name |-> nm, games_played |-> 0, games_won |-> 0, games_lost |-> 0,
     games_drawn |-> 0]

\* get_player_score with the new record left out of the file
get_player_score_not_saved(sc, nm) ==
    IF FindPlayer(sc, nm) # 0
    THEN <<sc[FindPlayer(sc, nm)], sc>>
    ELSE <<ZeroRecord(nm), sc>>

\* get_player_score: <<the record returned, the file after the call>>
get_player_score(sc, nm) ==
    IF FindPlayer(sc, nm) # 0
    THEN <<sc[FindPlayer(sc, nm)], sc>>
    ELSE <<ZeroRecord(nm), Append(sc, ZeroRecord(nm))>>

\* update_player_score with a loss counted as a game lost and a game drawn
Played_loss_counts_draw(r, res) ==
    [r EXCEPT !.games_played = @ + 1,
              !.games_won = IF res = "win" THEN @ + 1 ELSE @,
              !.games_lost = IF res = "loss" THEN @ + 1 ELSE @,
              !.games_drawn = IF res \in {"draw", "loss"} THEN @ + 1 ELSE @]

\* the record r after one more game with the result res
Played(r, res) ==
    [r EXCEPT !.games_played = @ + 1,
              !.games_won = IF res = "win" THEN @ + 1 ELSE @,
              !.games_lost = IF res = "loss" THEN @ + 1 ELSE @,
              !.games_drawn = IF res = "draw" THEN @ + 1 ELSE @]

\* update_player_score that never looks for the record of the name
update_player_score_always_appends(sc, nm, res) ==
    Append(sc, Played(ZeroRecord(nm), res))

\* update_player_score: the file after the call
update_player_score(sc, nm, res) ==
    IF FindPlayer(sc, nm) # 0
    THEN [sc EXCEPT ![FindPlayer(sc, nm)] = Played(@, res)]
    ELSE Append(sc, Played(ZeroRecord(nm), res))

\* sorted(..., reverse=True) is stable: r goes behind every record of the
\* sorted list srt that has at least as many games won
RECURSIVE InsertByWins(_, _)
InsertByWins(srt, r) ==
    IF srt = << >> THEN <<r>>
    ELSE IF Head(srt).games_won >= r.games_won
         THEN <<Head(srt)>> \o InsertByWins(Tail(srt), r)
         ELSE <<r>> \o srt

RECURSIVE SortedByWins(_)
SortedByWins(sc) ==
    IF sc = << >> THEN << >>
    ELSE InsertByWins(SortedByWins(SubSeq(sc, 1, Len(sc) - 1)), sc[Len(sc)])

\* lst[:n]
PyPrefix(lst, n) ==
    IF n >= Len(lst) THEN lst
    ELSE IF n >= 0 THEN SubSeq(lst, 1, n)
    ELSE IF Len(lst) + n > 0 THEN SubSeq(lst, 1, Len(lst) + n)
    ELSE << >>

\* get_leaderboard that cuts the list before it is sorted
get_leaderboard_cut_first(sc, top_n) == SortedByWins(PyPrefix(sc, top_n))

\* get_leaderboard
get_leaderboard(sc, top_n) == PyPrefix(SortedByWins(sc), top_n)

\* ScoresManager.__init__ on a missing file: json.dump([], f)
ScoreInit ==
    /\ BoardInit
    /\ op = <<"init">>
    /\ ret = NoMove
    /\ mark = "O"
    /\ level = "easy"
    /\ max_time = 1
    /\ EngineIdle
    /\ GuiIdle

UpdatePlayerScore ==
    /\ Len(updates) < MaxUpdates
    /\ \E nm \in Names, res \in ResultLabels :
          /\ scores' = update_player_score(scores, nm, res)
          /\ updates' = Append(updates, <<nm, res>>)
          /\ op' = <<"update_player_score", nm, res>>
          /\ ret' = NoMove
    /\ UNCHANGED <<grid, turn, engineVars, state, play_mode, board_message,
                 level_selected, rectVars>>

GetPlayerScore ==
    /\ \E nm \in Names :
          /\ ret' = get_player_score(scores, nm)[1]
          /\ scores' = get_player_score(scores, nm)[2]
          /\ op' = <<"get_player_score", nm>>
    /\ UNCHANGED <<grid, turn, engineVars, state, play_mode, board_message, updates,
                 level_selected, rectVars>>

GetLeaderboard ==
    /\ \E top_n \in 0 .. MaxTopN :
          /\ ret' = get_leaderboard(scores, top_n)
          /\ op' = <<"get_leaderboard", top_n>>
    /\ UNCHANGED <<grid, turn, engineVars, guiVars>>

ScoreNext ==
    \/ UpdatePlayerScore
    \/ GetPlayerScore
    \/ GetLeaderboard

ScoreSpec == ScoreInit /\ [][ScoreNext]_vars

(***************************************************************************)
(* The session controller: GameGUI.run and GameGUI.handle_events.  One     *)
(* action is the whole handling of one mouse click, or the draw call that  *)
(* ends a frame; the events of one batch are handled one after the other   *)
(* with no draw between them, so any number of clicks may precede a draw.  *)
(* The rectangles are kept as assigned or not: a click tested against the  *)
(* rectangles left by another screen can hit two buttons at once, which    *)
(* the handler treats in the order of two clicks.                          *)
(* The names typed on the input screens are not kept: a Continue action is *)
(* the click made when the name fields are filled in, and a participant is *)
(* named by its index into show_board_names (0 plays X, 1 plays O).  The   *)
(* update_player_score calls are recorded in updates; what a call does to  *)
(* the file is ScoreSpec's part.                                           *)
(***************************************************************************)
Screens == {"menu", "player_input", "vs_machine", "scores", "board"}
Messages == {"", "X wins!", "O wins!", "Draw!"}

\* f"{winner} wins!"
WinsMessage(winner) == IF winner = "X" THEN "X wins!" ELSE "O wins!"

\* Board.make_move on the board <<g, t>>: the board after the call
MakeMoveOn(g, t, row, col) ==
    IF is_valid_move(g, row, col)
    THEN <<SetCell(g, row, col, t), Other(t)>>
    ELSE <<g, t>>

\* the checks made after a placement with the winner never asked for
MessageAfter_draw_only(g, msg) ==
    IF is_full(g) THEN "Draw!"
    ELSE msg

\* the checks made after a placement, the full board asked first
MessageAfter_full_first(g, msg) ==
    IF is_full(g) THEN "Draw!"
    ELSE IF check_winner(g) # None THEN WinsMessage(check_winner(g))
    ELSE msg

\* the checks made after a placement: the winner first, then the full board
MessageAfter(g, msg) ==
    IF check_winner(g) # None THEN WinsMessage(check_winner(g))
    ELSE IF is_full(g) THEN "Draw!"
    ELSE msg

\* the update_player_score calls made after the clicked placement
ScoreCallsAfter(g) ==
    LET winner == check_winner(g) IN
    IF winner # None
    THEN << <<IF winner = "X" THEN 0 ELSE 1, "win">>,
            <<IF winner = "X" THEN 1 ELSE 0, "loss">> >>
    ELSE IF is_full(g) THEN << <<0, "draw">>, <<1, "draw">> >>
    ELSE << >>

\* MediumAIPlayer.choose_move's two scans: the index of the first empty cell
\* where placing the mark `placed` completes a line of it, NumCells if none
RECURSIVE MediumFirst(_, _, _)
MediumFirst(g, i, placed) ==
    IF i >= NumCells THEN NumCells
    ELSE IF /\ is_valid_move(g, CellAt(i)[1], CellAt(i)[2])
            /\ check_winner(Place(g, i, placed)) = placed
         THEN i
         ELSE MediumFirst(g, i + 1, placed)

\* what MediumAIPlayer.choose_move can return on the grid g
MediumResults(g, m) ==
    IF MediumFirst(g, 0, m) < NumCells THEN {CellAt(MediumFirst(g, 0, m))}
    ELSE IF MediumFirst(g, 0, Other(m)) < NumCells
         THEN {CellAt(MediumFirst(g, 0, Other(m)))}
         ELSE RandomResults(g)

\* what HardAIPlayer.choose_move returns on the grid g, where m is to move,
\* when the time limit never expires and when it has expired at the first
\* test (every root move then scores 0 and the first empty cell is kept)
HardResults(g, m) ==
    IF is_full(g) THEN {NoMove}
    ELSE {HardChooseMove(g, m), CellAt(NextValid(g, 0))}

\* self.ai.choose_move(self.board)
AIResults(lv, g, m) ==
    IF lv = "easy" THEN RandomResults(g)
    ELSE IF lv = "medium" THEN MediumResults(g, m)
    ELSE HardResults(g, m)

\* GameGUI.reset_game
reset_game ==
    /\ reset
    /\ board_message' = ""
    /\ updates' = << >>

\* GameGUI.levels: (button text, y position, level string)
levels ==
    << <<"Easy", 300, "easy">>, <<"Medium", 360, "medium">>,
       <<"Epic!", 420, "hard">> >>

\* the value of the variable level for a player of the class cls
LevelOfClass(cls) ==
    IF cls = "RandomAIPlayer" THEN "easy"
    ELSE IF cls = "MediumAIPlayer" THEN "medium"
    ELSE "hard"

\* GameGUI.run: the draw call of one frame, made after handle_events.  The
\* draw_* method of the screen shown assigns the rectangles of that screen.
Draw ==
    /\ pc = "idle"
    /\ level_rects' = IF state = "vs_machine" THEN "assigned" ELSE level_rects
    /\ square_rects' = IF state = "board" THEN "assigned" ELSE square_rects
    /\ continue_rect' = IF state \in {"player_input", "vs_machine"}
                        THEN "Rect" ELSE continue_rect
    /\ back_rect' = IF state # "menu" THEN "Rect" ELSE back_rect
    /\ UNCHANGED <<grid, turn, op, ret, engineVars, state, play_mode,
                   board_message, updates, scores, level_selected>>

\* a click handled in vs_machine or board before the screen was ever drawn:
\* self.level_rects or self.square_rects is read in the handler's loop,
\* the attribute does not exist, and AttributeError leaves handle_events
\* and run
ClickBeforeDraw ==
    /\ pc = "idle"
    /\ \/ state = "vs_machine" /\ level_rects = "unassigned"
       \/ state = "board" /\ square_rects = "unassigned"
    /\ pc' = "raised"
    /\ op' = <<"click", "AttributeError">>
    /\ UNCHANGED <<grid, turn, ret, mark, level, max_time, pos, best, stack,
                   expired, grid0, turn0, guiVars>>

\* menu: "1 Vs. 1"
MenuOneVsOne ==
    /\ pc = "idle"
    /\ state = "menu"
    /\ state' = "player_input"
    /\ play_mode' = "human"
    /\ op' = <<"click", "1 Vs. 1">>
    /\ UNCHANGED <<grid, turn, ret, engineVars, board_message, updates, scores,
                   level_selected, rectVars>>

\* menu: "Play vs Machine"
MenuVsMachine ==
    /\ pc = "idle"
    /\ state = "menu"
    /\ state' = "vs_machine"
    /\ play_mode' = "ai"
    /\ op' = <<"click", "Play vs Machine">>
    /\ UNCHANGED <<grid, turn, ret, engineVars, board_message, updates, scores,
                   level_selected, rectVars>>

\* menu: "View Statistics"
MenuScores ==
    /\ pc = "idle"
    /\ state = "menu"
    /\ state' = "scores"
    /\ op' = <<"click", "View Statistics">>
    /\ UNCHANGED <<grid, turn, ret, engineVars, play_mode, board_message, updates,
                   scores, level_selected, rectVars>>

\* player_input, vs_machine, scores: a click inside self.back_rect
ScreenBack ==
    /\ pc = "idle"
    /\ state \in {"player_input", "vs_machine", "scores"}
    /\ state = "vs_machine" => level_rects = "assigned"
    /\ back_rect = "Rect"
    /\ state' = "menu"
    /\ op' = <<"click", "Back">>
    /\ UNCHANGED <<grid, turn, ret, engineVars, play_mode, board_message, updates,
                   scores, level_selected, rectVars>>

\* a click on a level button that moves the highlight and keeps self.ai
SelectLevel_keeps_ai ==
    /\ pc = "idle"
    /\ state = "vs_machine"
    /\ level_rects = "assigned"
    /\ \E i \in 0 .. Len(levels) - 1 :
          /\ level_selected' = i
          /\ op' = <<"click", levels[i + 1][1]>>
    /\ UNCHANGED <<grid, turn, ret, engineVars, state, play_mode, board_message,
                   updates, scores, rectVars>>

\* vs_machine: a click on the i-th level button
SelectLevel ==
    /\ pc = "idle"
    /\ state = "vs_machine"
    /\ level_rects = "assigned"
    /\ \E i \in 0 .. Len(levels) - 1 :
          LET ai == get_ai_player(levels[i + 1][3], "O", 1)[2] IN
          /\ level_selected' = i
          /\ level' = LevelOfClass(ai.class)
          /\ mark' = ai.mark
          /\ max_time' = ai.max_time
          /\ op' = <<"click", levels[i + 1][1]>>
    /\ UNCHANGED <<grid, turn, ret, pc, pos, best, stack, expired, grid0, turn0,
                   state, play_mode, board_message, updates, scores, rectVars>>

\* player_input, vs_machine: a click inside self.continue_rect, the names
\* being filled in
Continue ==
    /\ pc = "idle"
    /\ state \in {"player_input", "vs_machine"}
    /\ state = "vs_machine" => level_rects = "assigned"
    /\ continue_rect = "Rect"
    /\ reset_game
    /\ state' = "board"
    /\ op' = <<"click", "Continue">>
    /\ UNCHANGED <<ret, engineVars, play_mode, scores, level_selected, rectVars>>

\* the machine is asked for a move although a message is shown
MachineAnswers_after_end(t, msg) == play_mode = "ai" /\ t = "O"

\* the machine is asked for a move: the turn is t and the message msg
MachineAnswers(t, msg) == play_mode = "ai" /\ t = "O" /\ msg = ""

\* board: a click on the square (row, col) with a message shown: the second
\* condition of the handler left out
BoardClick_ignores_message ==
    /\ pc = "idle"
    /\ state = "board"
    /\ square_rects = "assigned"
    /\ \E row, col \in Rows :
          /\ grid[row][col] = ""
          /\ LET b1 == MakeMoveOn(grid, turn, row, col)
                 msg1 == MessageAfter(b1[1], board_message)
             IN  /\ updates' = updates \o ScoreCallsAfter(b1[1])
                 /\ IF MachineAnswers(b1[2], msg1)
                    THEN \E move \in AIResults(level, b1[1], mark) :
                            LET b2 == IF move # NoMove
                                      THEN MakeMoveOn(b1[1], b1[2], move[1], move[2])
                                      ELSE b1
                            IN  /\ grid' = b2[1]
                                /\ turn' = b2[2]
                                /\ board_message' = MessageAfter(b2[1], msg1)
                                /\ op' = <<"click", row, col, move>>
                    ELSE /\ grid' = b1[1]
                         /\ turn' = b1[2]
                         /\ board_message' = msg1
                         /\ op' = <<"click", row, col>>
    /\ UNCHANGED <<ret, engineVars, state, play_mode, scores, level_selected,
                   rectVars>>

\* board: a click on the square (row, col), which is played when the square
\* is empty and no message is shown; in vs-machine mode the machine answers
\* within the same click, and op then ends with the move it chose
BoardClick ==
    /\ pc = "idle"
    /\ state = "board"
    /\ square_rects = "assigned"
    /\ \E row, col \in Rows :
          /\ grid[row][col] = ""
          /\ board_message = ""
          /\ LET b1 == MakeMoveOn(grid, turn, row, col)
                 msg1 == MessageAfter(b1[1], board_message)
             IN  /\ updates' = updates \o ScoreCallsAfter(b1[1])
                 /\ IF MachineAnswers(b1[2], msg1)
                    THEN \E move \in AIResults(level, b1[1], mark) :
                            LET b2 == IF move # NoMove
                                      THEN MakeMoveOn(b1[1], b1[2], move[1], move[2])
                                      ELSE b1
                            IN  /\ grid' = b2[1]
                                /\ turn' = b2[2]
                                /\ board_message' = MessageAfter(b2[1], msg1)
                                /\ op' = <<"click", row, col, move>>
                    ELSE /\ grid' = b1[1]
                         /\ turn' = b1[2]
                         /\ board_message' = msg1
                         /\ op' = <<"click", row, col>>
    /\ UNCHANGED <<ret, engineVars, state, play_mode, scores, level_selected,
                   rectVars>>

\* Back to Menu on the board with the board left as it is
BoardBack_keeps_board ==
    /\ pc = "idle"
    /\ state = "board"
    /\ square_rects = "assigned"
    /\ back_rect = "Rect"
    /\ state' = "menu"
    /\ op' = <<"click", "Back">>
    /\ UNCHANGED <<grid, turn, ret, engineVars, play_mode, board_message, updates,
                   scores, level_selected, rectVars>>

\* board: a click inside self.back_rect
BoardBack ==
    /\ pc = "idle"
    /\ state = "board"
    /\ square_rects = "assigned"
    /\ back_rect = "Rect"
    /\ reset_game
    /\ state' = "menu"
    /\ op' = <<"click", "Back">>
    /\ UNCHANGED <<ret, engineVars, play_mode, scores, level_selected, rectVars>>

GuiNext ==
    \/ Draw
    \/ ClickBeforeDraw
    \/ MenuOneVsOne
    \/ MenuVsMachine
    \/ MenuScores
    \/ ScreenBack
    \/ SelectLevel
    \/ Continue
    \/ BoardClick
    \/ BoardBack

GuiSpec == Init /\ [][GuiNext]_vars

(***************************************************************************)
(* Properties of the Board's operations (under Spec).  The step in which   *)
(* make_move(row, col) is called is the one with                           *)
(* op' = <<"make_move", row, col>>.                                        *)
(***************************************************************************)
OutOfRange(row, col) == row < 0 \/ row >= Size \/ col < 0 \/ col >= Size
Occupied(g, row, col) == ~OutOfRange(row, col) /\ g[row][col] # ""

C2_InvalidMoveRejected ==
    [][op'[1] = "make_move"
       => LET row == op'[2]
              col == op'[3]
          IN  (OutOfRange(row, col) \/ Occupied(grid, row, col))
              => /\ ret' = FALSE
                 /\ grid' = grid
                 /\ turn' = turn]_vars

\* a rejected call with a negative row, which Python's indexing would
\* accept as the last row, on a board whose last row still has room
C2_Witness ==
    /\ op = <<"make_move", 0 - 1, 2>>
    /\ ret = FALSE
    /\ grid[Size - 1][2] = ""
    /\ grid # EmptyGrid

C5_ResetRestoresInitial ==
    [][op' = <<"reset">>
       => /\ grid' = EmptyGrid
          /\ turn' = "X"
          /\ grid' = [r \in Rows |-> [c \in Rows |-> ""]]
          /\ (op = <<"reset">> => UNCHANGED <<grid, turn>>)]_vars

\* the state after a reset
C5_Witness ==
    /\ op = <<"reset">>
    /\ grid = EmptyGrid
    /\ turn = "X"

(***************************************************************************)
(* Properties of check_winner (under GridSpec).                            *)
(***************************************************************************)
\* The lines of the board as sets of cells: rows, columns, main diagonal,
\* anti-diagonal.
Lines ==
    {{<<r, c>> : c \in Rows} : r \in Rows}
    \cup {{<<r, c>> : r \in Rows} : c \in Rows}
    \cup {{<<i, i>> : i \in Rows}}
    \cup {{<<i, Size - 1 - i>> : i \in Rows}}

HasLine(g, m) == \E line \in Lines : \A rc \in line : g[rc[1]][rc[2]] = m

\* C4: on every grid, check_winner returns a mark m only if some row, column
\* or diagonal is entirely m, returns some mark whenever such a line
\* exists, and returns None otherwise (so on the empty board).
C4_CheckWinnerIffLine ==
    op = <<"check_winner">>
    => /\ ret \in Marks => HasLine(grid, ret)
       /\ (\E m \in Marks : HasLine(grid, m)) => ret \in Marks
       /\ (\A m \in Marks : ~HasLine(grid, m)) => ret = None
       /\ grid = EmptyGrid => ret = None

\* check_winner has answered "O" on a grid whose only complete line is the
\* anti-diagonal and which no play produces (no X at all)
C4_Witness ==
    /\ op = <<"check_winner">>
    /\ ret = "O"
    /\ \A i \in Rows : grid[i][Size - 1 - i] = "O"
    /\ Count(grid, "O") = Size
    /\ Count(grid, "X") = 0

\* C17: is_valid_move(row, col) returns True exactly when 0 <= row < size,
\* 0 <= col < size and the cell is empty; with any integers, negative and
\* too large ones too, it returns a truth value and leaves grid and turn
\* as they were.
C17_IsValidMoveIffInRangeEmpty ==
    [][op'[1] = "is_valid_move"
       => LET row == op'[2]
              col == op'[3]
          IN  /\ ret' \in BOOLEAN
              /\ ret' <=> (/\ 0 <= row /\ row < Size
                           /\ 0 <= col /\ col < Size
                           /\ grid[row][col] = "")
              /\ grid' = grid
              /\ turn' = turn]_vars

\* False for a negative column that Python's indexing would take for the
\* last column, which is empty
C17_Witness ==
    /\ op = <<"is_valid_move", 1, 0 - 1>>
    /\ ret = FALSE
    /\ grid[1][Size - 1] = ""

IndexOf(rc) == rc[1] * Size + rc[2]

\* C18: get_empty_cells returns exactly the cells for which is_valid_move
\* holds, each once, by ascending row and then ascending column; the list
\* is empty exactly when is_full() is true.
C18_EmptyCellsRowMajor ==
    op = <<"get_empty_cells">>
    => /\ \A k \in 1 .. Len(ret) :
              /\ ret[k] \in Rows \X Rows
              /\ is_valid_move(grid, ret[k][1], ret[k][2])
       /\ \A rc \in Rows \X Rows :
              grid[rc[1]][rc[2]] = "" => \E k \in 1 .. Len(ret) : ret[k] = rc
       /\ \A j, k \in 1 .. Len(ret) : j < k => IndexOf(ret[j]) < IndexOf(ret[k])
       /\ ret = << >> <=> is_full(grid)
       /\ Len(ret) = Count(grid, "")

\* a list of three cells in two rows, the last cell of a row before the
\* first cell of the next row
C18_Witness ==
    /\ op = <<"get_empty_cells">>
    /\ ret = << <<0, 2>>, <<1, 0>>, <<2, 1>> >>

(***************************************************************************)
(* Properties of the games of HardAIPlayer without time limit (under       *)
(* GameSpec).                                                              *)
(***************************************************************************)
\* C6: in no position of a game from the empty board in which one side (X
\* or O) plays the moves of HardAIPlayer with max_time = 0 and the other
\* side any legal moves does check_winner give the opponent's mark; a game
\* that is over is won by the AI or drawn.
C6_HardNeverLoses ==
    /\ check_winner(grid) # Other(mark)
    /\ ~HasLine(grid, Other(mark))
    /\ GameOver => (check_winner(grid) = mark
                    \/ (is_full(grid) /\ check_winner(grid) = None))

\* a drawn game in which the AI played O: the board is full, no winner
C6_Witness ==
    /\ mark = "O"
    /\ is_full(grid)
    /\ check_winner(grid) = None
    /\ op[1] = "make_move"

(***************************************************************************)
(* Properties of choose_move (under EngineSpec).  grid0 and turn0 are the  *)
(* board at the call; pc = "done" when choose_move has returned ret.       *)
(***************************************************************************)
Indices == 0 .. (NumCells - 1)
At(g, i) == g[CellAt(i)[1]][CellAt(i)[2]]
MaxOf(S) == CHOOSE x \in S : \A y \in S : y <= x
MinOf(S) == CHOOSE x \in S : \A y \in S : x <= y

\* The value for mark m of position g with `mover` to place next, by
\* exhaustive search: the best the mover can reach, m maximising and the
\* opponent minimising; 1, -1, 0 for a position won, lost, drawn.
RECURSIVE ExhaustiveValue(_, _, _)
ExhaustiveValue(g, mover, m) ==
    LET winner == check_winner(g) IN
    IF winner = m THEN 1
    ELSE IF winner = Other(m) THEN 0 - 1
    ELSE IF \A i \in Indices : At(g, i) # "" THEN 0
    ELSE LET values == {ExhaustiveValue(Place(g, i, mover), Other(mover), m) :
                            i \in {j \in Indices : At(g, j) = ""}}
         IN  IF mover = m THEN MaxOf(values) ELSE MinOf(values)

\* The value of m's move to cell i (opponent to reply)
MoveValue(g, i, m) == ExhaustiveValue(Place(g, i, m), Other(m), m)

\* The first cell in row-major order among the empty cells of index < n
\* whose move has the greatest value, with that value
FirstBestBelow(g, m, n) ==
    LET empties == {i \in Indices : i < n /\ At(g, i) = ""}
        value == [i \in empties |-> MoveValue(g, i, m)]
        top == MaxOf({value[i] : i \in empties})
        first == MinOf({i \in empties : value[i] = top})
    IN  <<top, CellAt(first)>>

\* C7: without time limit, HardAIPlayer.choose_move returns the first cell
\* in row-major order among the empty cells whose move has the greatest
\* exhaustive minimax value; between two cells of the loop the best so far
\* is the first of the greatest among the cells already tried (a later
\* cell replaces it only with a strictly greater score); on the grid of
\* test_hard_ai_plays_optimal played as X the result is (2, 0).
C7_HardFirstBest ==
    (level = "hard" /\ max_time = 0)
    => /\ (pc = "done" /\ ~is_full(grid0))
          => ret = FirstBestBelow(grid0, mark, NumCells)[2]
       /\ (pc = "root" /\ best[2] # NoMove)
          => best = FirstBestBelow(grid0, mark, pos)
       /\ (pc = "done" /\ grid0 = HardTestGrid /\ mark = "X")
          => ret = <<2, 0>>

\* choose_move as X has returned (2, 0) on the grid of the test: the move
\* wins, the earlier cell (1, 2) and the later cell (2, 1) only draw
C7_Witness ==
    /\ level = "hard"
    /\ max_time = 0
    /\ pc = "done"
    /\ grid0 = HardTestGrid
    /\ mark = "X"
    /\ ret = <<2, 0>>
    /\ MoveValue(grid0, 5, "X") < MoveValue(grid0, 6, "X")
    /\ MoveValue(grid0, 7, "X") < MoveValue(grid0, 6, "X")

\* C8: on a board with an empty cell, HardAIPlayer.choose_move with
\* max_time > 0 returns an in-range empty cell and never None, whenever the
\* time limit expires during the search, also before the first call of
\* minimax.
C8_HardReturnsLegalMoveUnderCutoff ==
    (pc = "done" /\ level = "hard" /\ max_time > 0 /\ ~is_full(grid0))
    => /\ ret # NoMove
       /\ ret \in Rows \X Rows
       /\ grid0[ret[1]][ret[2]] = ""

\* the time limit had expired at the first call of minimax: every move
\* scored 0 and the first empty cell is returned, on a board without winner
C8_Witness ==
    /\ pc = "done"
    /\ level = "hard"
    /\ max_time > 0
    /\ expired
    /\ check_winner(grid0) = None
    /\ Count(grid0, "") >= 2
    /\ best = <<0, CellAt(NextValid(grid0, 0))>>
    /\ ret = best[2]
    /\ MoveValue(grid0, NextValid(grid0, 0), mark) # 0

\* C9: when choose_move of RandomAIPlayer, MediumAIPlayer or HardAIPlayer
\* has returned, whenever the time limit expired, the grid and the turn are
\* those at the call: every placement of the search is undone and the move
\* returned is not made.
C9_ChooseMoveLeavesBoard ==
    pc = "done" => (grid = grid0 /\ turn = turn0)

\* MediumAIPlayer has returned a cell found by placing a mark on it, and the
\* cell is empty again
C9_Witness ==
    /\ pc = "done"
    /\ level = "medium"
    /\ ret # NoMove
    /\ HasLine(Place(grid0, pos, Other(mark)), Other(mark))
    /\ ret = CellAt(pos)
    /\ grid = grid0
    /\ At(grid, pos) = ""

\* rc is empty and the other cells of one of its lines all hold m
CompletesLine(g, rc, m) ==
    /\ g[rc[1]][rc[2]] = ""
    /\ \E line \in Lines :
        /\ rc \in line
        /\ \A q \in line \ {rc} : g[q[1]][q[2]] = m

WinningIndices(g, m) == {i \in Indices : CompletesLine(g, CellAt(i), m)}

\* C10: on a board without complete line on which some empty cell would
\* complete a line of the AI's mark, MediumAIPlayer.choose_move returns the
\* first such cell in row-major order, also when some cell would complete
\* a line of the opponent.
C10_MediumWinsFirst ==
    (/\ pc = "done"
     /\ level = "medium"
     /\ \A m \in Marks : ~HasLine(grid0, m)
     /\ WinningIndices(grid0, mark) # {})
    => ret = CellAt(MinOf(WinningIndices(grid0, mark)))

\* on the grid of the test, played as X, (0, 2) is returned although O
\* would win at (1, 1), a cell that comes first for the opponent's loop
C10_Witness ==
    /\ pc = "done"
    /\ level = "medium"
    /\ grid0 = MediumWinGrid
    /\ mark = "X"
    /\ ret = <<0, 2>>
    /\ WinningIndices(grid0, "O") = {4}

\* C11: on a board without complete line on which no empty cell completes
\* a line of the AI's mark and some empty cell completes a line of the
\* opposing mark, MediumAIPlayer.choose_move returns the first such cell in
\* row-major order; (0, 2) on the first grid of
\* test_medium_ai_blocks_or_wins played as X.
C11_MediumBlocksFirst ==
    /\ (/\ pc = "done"
        /\ level = "medium"
        /\ \A m \in Marks : ~HasLine(grid0, m)
        /\ WinningIndices(grid0, mark) = {}
        /\ WinningIndices(grid0, Other(mark)) # {})
       => ret = CellAt(MinOf(WinningIndices(grid0, Other(mark))))
    /\ (pc = "done" /\ level = "medium" /\ grid0 = MediumBlockGrid /\ mark = "X")
       => ret = <<0, 2>>

\* a block with two cells to choose from: the opponent would win at two
\* cells and the one returned is the first of them
C11_Witness ==
    /\ pc = "done"
    /\ level = "medium"
    /\ \A m \in Marks : ~HasLine(grid0, m)
    /\ WinningIndices(grid0, mark) = {}
    /\ Cardinality(WinningIndices(grid0, Other(mark))) = 2
    /\ ret = CellAt(MinOf(WinningIndices(grid0, Other(mark))))

\* C12: whatever random.choice picks, RandomAIPlayer.choose_move returns a
\* cell for which is_valid_move held at the call, and None exactly when
\* the board had no empty cell; before the call every empty cell is a
\* possible result.
C12_RandomReturnsAnyValidCell ==
    /\ (pc = "done" /\ level = "easy")
       => /\ ret = NoMove <=> (\A i \in Indices : At(grid0, i) # "")
          /\ ret # NoMove
             => /\ ret \in Rows \X Rows
                /\ grid0[ret[1]][ret[2]] = ""
    /\ (pc = "idle" /\ level = "easy")
       => \A rc \in Rows \X Rows :
              grid[rc[1]][rc[2]] = "" => ENABLED (RandomChooseMove /\ ret' = rc)

\* the last of several empty cells has been returned
C12_Witness ==
    /\ pc = "done"
    /\ level = "easy"
    /\ Count(grid0, "") = 4
    /\ ret = CellAt(MaxOf({i \in Indices : At(grid0, i) = ""}))

\* C13: choose_move of MediumAIPlayer and of HardAIPlayer returns None
\* exactly when the board is full; on any other board the cell returned is
\* in range and empty, and make_move of it right afterwards returns True.
C13_MediumHardNoneIffFull ==
    /\ (pc = "done" /\ level \in {"medium", "hard"})
       => /\ ret = NoMove <=> is_full(grid0)
          /\ ret # NoMove
             => /\ ret \in Rows \X Rows
                /\ grid[ret[1]][ret[2]] = ""
    /\ (pc = "applied" /\ level \in {"medium", "hard"})
       => /\ ret = TRUE
          /\ grid[op[2]][op[3]] = turn0
          /\ grid0[op[2]][op[3]] = ""

\* the random move of MediumAIPlayer (nothing to win, nothing to block) has
\* been made on the board
C13_Witness ==
    /\ pc = "applied"
    /\ level = "medium"
    /\ ret = TRUE
    /\ \A m \in Marks : ~HasLine(grid0, m) /\ WinningIndices(grid0, m) = {}
    /\ Count(grid, "") + 1 = Count(grid0, "")

\* What HardAIPlayer without time limit returns, as a function of the grid
\* and of the AI's mark alone
HardResultOf(g, m) ==
    IF \A i \in Indices : At(g, i) # "" THEN NoMove
    ELSE FirstBestBelow(g, m, NumCells)[2]

\* C15: with max_time = 0, what HardAIPlayer.choose_move returns is a
\* function of the grid and of the AI's mark, the same whatever board.turn
\* is; no step of a choose_move, of any of the players, changes board.turn.
C15_HardIgnoresTurn ==
    /\ pc # "applied" => turn = turn0
    /\ (pc = "done" /\ level = "hard" /\ max_time = 0)
       => ret = HardResultOf(grid0, mark)

\* HardAIPlayer playing O has returned a move on a board with O to move by
\* the marks on it, while board.turn is "X"
C15_Witness ==
    /\ pc = "done"
    /\ level = "hard"
    /\ max_time = 0
    /\ mark = "O"
    /\ ToMove(grid0) = "O"
    /\ turn = "X"
    /\ ret # NoMove
    /\ check_winner(grid0) = None

(***************************************************************************)
(* Properties of get_ai_player (under FactorySpec).                        *)
(***************************************************************************)
ClassOfLevel ==
    [lv \in Levels |-> CASE lv = "easy" -> "RandomAIPlayer"
                         [] lv = "medium" -> "MediumAIPlayer"
                         [] lv = "hard" -> "HardAIPlayer"]

\* C14: get_ai_player returns a RandomAIPlayer for "easy", a MediumAIPlayer
\* for "medium", a HardAIPlayer for "hard", each with the mark and max_time
\* given; for every other label it raises ValueError and returns no
\* player.
C14_FactoryByLevel ==
    op[1] = "get_ai_player"
    => IF op[2] \in {"easy", "medium", "hard"}
       THEN /\ ret[1] = "return"
            /\ ret[2].class = ClassOfLevel[op[2]]
            /\ ret[2].mark = op[3]
            /\ ret[2].max_time = op[4]
       ELSE /\ ret[1] = "raise"
            /\ ret[2] = "ValueError"

\* a label that differs from a level only in case has raised ValueError
C14_Witness ==
    /\ op[1] = "get_ai_player"
    /\ op[2] = "HARD"
    /\ ret = <<"raise", "ValueError">>

(***************************************************************************)
(* Properties of the session controller (under GuiSpec).                   *)
(***************************************************************************)

\* C16: on the board screen 'Draw!' is the message shown exactly when the
\* board is full and check_winner returns None, and a full board that holds
\* a complete line shows the winner's message, not 'Draw!'.
C16_DrawIffFullNoWinner ==
    state = "board" =>
        /\ board_message = "Draw!" <=> (is_full(grid) /\ check_winner(grid) = None)
        /\ (is_full(grid) /\ check_winner(grid) # None)
              => board_message = WinsMessage(check_winner(grid))

\* a full board whose last placement completed a line, reported as a win
C16_Witness ==
    /\ state = "board"
    /\ is_full(grid)
    /\ check_winner(grid) = "X"
    /\ board_message = "X wins!"
    /\ op[1] = "click"

\* the board has a line or is full
Finished(g) == check_winner(g) # None \/ is_full(g)

\* C19: once a message is shown, the only change made to the board is
\* reset_game's (no click places a mark); the machine answers a click only
\* when the clicked placement left the game open; and after every step that
\* changes the board a message is shown exactly when the new board has a
\* line or is full.
C19_NoPlacementAfterMessage ==
    [][/\ (board_message # "" /\ grid' # grid)
            => (grid' = EmptyGrid /\ turn' = "X" /\ board_message' = "")
       /\ (op'[1] = "click" /\ Len(op') = 4)
            => ~Finished(SetCell(grid, op'[2], op'[3], turn))
       /\ grid' # grid => (board_message' # "" <=> Finished(grid'))]_vars

\* the board screen with a message shown and empty squares left to click
C19_Witness ==
    /\ state = "board"
    /\ board_message # ""
    /\ ~is_full(grid)
    /\ op[1] = "click"
    /\ Len(op) = 4

\* the update_player_score calls made for the participant i, in call order
CallsFor(i) == SelectSeq(updates, LAMBDA c : c[1] = i)

\* the result due to the participant i on the finished board g
ResultDue(g, i) ==
    IF check_winner(g) = None THEN "draw"
    ELSE IF check_winner(g) = (IF i = 0 THEN "X" ELSE "O") THEN "win"
    ELSE "loss"

\* C20: on the board screen, a game that has ended (a line of X, a line of
\* O, or a full board) has made exactly one update_player_score call for
\* each of its two participants, with the result due to that participant.
C20_OneScoreCallPerParticipant ==
    (state = "board" /\ Finished(grid)) =>
        \A i \in {0, 1} : CallsFor(i) = << <<i, ResultDue(grid, i)>> >>

\* C20 for the games ended by the clicked placement: these are scored
C20_ClickedPlacementScored ==
    (state = "board" /\ Finished(grid) /\ Len(op) = 3) =>
        \A i \in {0, 1} : CallsFor(i) = << <<i, ResultDue(grid, i)>> >>

\* a game ended by the machine's placement: no call has been made
C20_MachineEndsGame ==
    /\ state = "board"
    /\ play_mode = "ai"
    /\ check_winner(grid) = "O"
    /\ Len(op) = 4
    /\ updates = << >>

(***************************************************************************)
(* Properties of the ScoresManager (under ScoreSpec).                      *)
(***************************************************************************)

\* the number of update_player_score(nm, res) calls made so far
UpdatesOf(nm, res) == Len(SelectSeq(updates, LAMBDA c : c = <<nm, res>>))

LeftOut(sc, lst) ==
    {k \in 1 .. Len(sc) : \A j \in 1 .. Len(lst) : lst[j] # sc[k]}

Changed == {i \in 0 .. NumCells - 1 : At(grid, i) # At(grid0, i)}

\* C24: during MediumAIPlayer.choose_move the grid differs from the grid at
\* call time in at most one cell, the one being probed, which was empty and
\* holds the mark of the loop; between two probes, before the random move
\* and at the return the grid is the grid at call time.
C24_MediumOneHypotheticalMark ==
    level = "medium" =>
        /\ pc \in {"win_try", "block_try"} =>
              /\ Changed = {pos}
              /\ At(grid0, pos) = ""
              /\ At(grid, pos) = IF pc = "win_try" THEN mark ELSE Other(mark)
        /\ pc \in {"win_scan", "block_scan", "fallback", "done"} => grid = grid0

\* the second loop probing a cell after earlier probes of both loops were
\* undone
C24_Witness ==
    /\ level = "medium"
    /\ pc = "block_try"
    /\ At(grid0, 0) = ""
    /\ pos > 1
    /\ Changed = {pos}

\* the cells placed on the way to the minimax call being entered: the cell
\* of choose_move's loop, then the cell of each minimax call in progress
SearchPath == <<pos>> \o [k \in 1 .. Len(stack) |-> stack[k].pos]

\* C25: at the entry of every minimax call the grid is the grid at call
\* time plus exactly the marks placed on the way from choose_move to that
\* call: at depth d there are d changed cells, all empty at call time, the
\* first holding the AI's mark, the second the opponent's, and so on in
\* turn; nothing placed in another branch is left, cutoffs or not.
C25_MinimaxSeesOnlyItsPath ==
    (level = "hard" /\ pc = "enter") =>
        LET path == SearchPath
            changed == Changed
        IN  /\ changed = {path[k] : k \in 1 .. Len(path)}
            /\ Cardinality(changed) = Len(path)
            /\ \A k \in 1 .. Len(path) :
                  /\ At(grid0, path[k]) = ""
                  /\ At(grid, path[k]) = IF k % 2 = 1 THEN mark ELSE Other(mark)

\* a call at depth three entered after a branch of each of its callers was
\* searched and undone
C25_Witness ==
    /\ level = "hard"
    /\ pc = "enter"
    /\ Len(stack) = 2
    /\ pos # NextValid(grid0, 0)
    /\ stack[1].pos # NextValid(Place(grid0, pos, mark), 0)
    /\ Cardinality(Changed) = 3

\* the minimax call being entered returns score in this step: its caller
\* takes the score into account and no new call is in progress
MinimaxReturns(score) ==
    IF stack = << >>
    THEN /\ pc' = "root"
         /\ stack' = << >>
         /\ best' = RootUpdate(score, CellAt(pos), best)
    ELSE /\ pc' = "loop"
         /\ Len(stack') = Len(stack)
         /\ stack'[Len(stack)].best_score =
               Combine(stack[Len(stack)].is_maximizing, score,
                       stack[Len(stack)].best_score)

\* C26: a minimax call entered with the time limit exceeded (which needs
\* max_time > 0) returns 0 at once, whatever the position, a win or a loss
\* included; a call entered within the limit examines the position: it
\* returns the score of a position that ends the game and starts its loop on
\* any other; with max_time = 0 the limit is never found exceeded.
C26_CutoffReturnsZero ==
    [][/\ pc = "enter" =>
            IF expired'
            THEN max_time > 0 /\ MinimaxReturns(0)
            ELSE IF IsTerminal(grid)
                 THEN MinimaxReturns(TerminalScore(grid, mark))
                 ELSE pc' = "loop" /\ Len(stack') = Len(stack) + 1
       /\ max_time = 0 => ~expired']_vars

\* choose_move has tried a move that completes a line of its mark, and the
\* call of minimax on that position, entered after the limit, returned 0
C26_Witness ==
    /\ level = "hard"
    /\ pc = "root"
    /\ expired
    /\ pos >= 1
    /\ At(grid0, pos - 1) = ""
    /\ check_winner(Place(grid0, pos - 1, mark)) = mark
    /\ best[1] = 0

\* the scores minimax can return
Scores == {0 - 1, 0, 1}

\* C27: every value minimax returns is -1, 0 or +1.  The value returned at
\* a cutoff is the constant 0; the value returned for a finished position is
\* +1 only when check_winner gives the AI's mark and -1 only when it gives
\* the opponent's; the value returned after the loop (the running best of a
\* call whose loop has no cell left) is never the infinity the loop started
\* from; and the scores kept by the callers are such values or the initial
\* infinity.
C27_MinimaxReturnsScores ==
    level = "hard" =>
        /\ (pc = "enter" /\ IsTerminal(grid)) =>
              LET score == TerminalScore(grid, mark)
                  winner == check_winner(grid)
              IN  /\ score \in Scores
                  /\ score = 1 => winner = mark
                  /\ score = 0 - 1 => winner = Other(mark)
        /\ (pc = "loop" /\ NextValid(grid, stack[Len(stack)].pos) >= NumCells) =>
              stack[Len(stack)].best_score \in Scores
        /\ \A k \in 1 .. Len(stack) :
              stack[k].best_score \in Scores \cup
                  {IF stack[k].is_maximizing THEN NegInf ELSE PosInf}
        /\ best[1] \in Scores \cup {NegInf}

\* a minimizing call returns -1 after its loop, having started from plus
\* infinity, while the limit has cut off an earlier call
C27_Witness ==
    /\ level = "hard"
    /\ pc = "loop"
    /\ expired
    /\ ~stack[Len(stack)].is_maximizing
    /\ NextValid(grid, stack[Len(stack)].pos) >= NumCells
    /\ stack[Len(stack)].best_score = 0 - 1

(***************************************************************************)
(* Properties of the positions of a game (under GuiSpec) and of the scan   *)
(* of check_winner (under GridSpec).                                       *)
(***************************************************************************)

\* C28: in every position a game on the board screen reaches (placements
\* of X and O in turn from the empty board, none after a line is complete)
\* X and O do not both have a complete line, so check_winner returns a mark
\* exactly when that mark has a line, whatever the order of its scan.
C28_NoTwoWinners ==
    /\ ~(HasLine(grid, "X") /\ HasLine(grid, "O"))
    /\ \A m \in Marks : check_winner(grid) = m <=> HasLine(grid, m)

\* a game O has won in which X had a line of its own one placement away
C28_Witness ==
    /\ state = "board"
    /\ play_mode = "human"
    /\ HasLine(grid, "O")
    /\ \E i \in Indices : At(grid, i) = "" /\ HasLine(Place(grid, i, "X"), "X")

\* the lines in the order of the reference scan: the rows from the first to
\* the last, the columns from the first to the last, the main diagonal, the
\* anti-diagonal; each line is the sequence of its cells
ReferenceLines ==
    [k \in 1 .. Size |-> [j \in 1 .. Size |-> <<k - 1, j - 1>>]]
    \o [k \in 1 .. Size |-> [j \in 1 .. Size |-> <<j - 1, k - 1>>]]
    \o << [j \in 1 .. Size |-> <<j - 1, j - 1>>] >>
    \o << [j \in 1 .. Size |-> <<j - 1, Size - j>>] >>

\* the line is complete: one mark in all of its cells
Complete(g, line) ==
    /\ g[line[1][1]][line[1][2]] # ""
    /\ \A j \in 1 .. Len(line) : g[line[j][1]][line[j][2]] = g[line[1][1]][line[1][2]]

\* the mark of the first complete line from the k-th line on, None if none
RECURSIVE ReferenceFrom(_, _)
ReferenceFrom(g, k) ==
    IF k > Len(ReferenceLines) THEN None
    ELSE IF Complete(g, ReferenceLines[k])
         THEN g[ReferenceLines[k][1][1]][ReferenceLines[k][1][2]]
         ELSE ReferenceFrom(g, k + 1)

\* C29: on every grid, grids with complete lines of both marks included,
\* check_winner returns what the reference scan returns: the mark of the
\* first complete line among all rows in order, then all columns in order,
\* then the main diagonal, then the anti-diagonal, and None without one.
C29_CheckWinnerIsReferenceScan ==
    op = <<"check_winner">> => ret = ReferenceFrom(grid, 1)

\* a grid no game reaches: a complete row of O above a complete row of X,
\* and the first row's mark was returned
C29_Witness ==
    /\ op = <<"check_winner">>
    /\ \A c \in Rows : grid[1][c] = "O" /\ grid[2][c] = "X"
    /\ grid[0][0] = ""
    /\ ret = "O"

(***************************************************************************)
(* Properties of a game taken up from a position (under PositionSpec).     *)
(***************************************************************************)

\* the empty cells of g
EmptyIn(g) == {i \in Indices : At(g, i) = ""}

\* Whether the mark m wins whatever the opponent places, for every grid of
\* alternating play with at most k empty cells: m has a line already, or m
\* is to place and some placement leads to a grid where it does, or the
\* opponent is to place, has a cell to place on, and every placement leads
\* to such a grid.  The merge (@@) tabulates each level.
RECURSIVE ForcedWinUpTo(_, _)
ForcedWinUpTo(m, k) ==
    IF k = 0
    THEN [g \in LevelGrids[k] |-> HasLine(g, m) /\ ~HasLine(g, Other(m))] @@ << >>
    ELSE LET sub == ForcedWinUpTo(m, k - 1)
         IN  [g \in LevelGrids[k] |->
                 IF HasLine(g, m) \/ HasLine(g, Other(m))
                 THEN ~HasLine(g, Other(m))
                 ELSE IF MoverAt(k) = m
                      THEN \E i \in EmptyIn(g) : sub[Place(g, i, m)]
                      ELSE \A i \in EmptyIn(g) : sub[Place(g, i, Other(m))]] @@ sub

ForcedWinX == ForcedWinUpTo("X", NumCells)
ForcedWinO == ForcedWinUpTo("O", NumCells)
ForcedWin(g, m) == IF m = "X" THEN ForcedWinX[g] ELSE ForcedWinO[g]

\* C30: in a game taken up from a position of legal play where the AI is to
\* move and its mark wins whatever the opponent places, with HardAIPlayer
\* (max_time = 0) making the AI's moves and the opponent any legal moves,
\* the AI's mark keeps winning whatever the opponent places, choose_move
\* returns a move that is made whenever the game is not over on the AI's
\* turn, and a game that is over is won by the AI.
C30_HardConvertsForcedWin ==
    ForcedWin(grid0, mark) =>
        /\ ForcedWin(grid, mark)
        /\ (~GameOver /\ turn = mark) =>
              /\ HardChooseMove(grid, mark) # NoMove
              /\ is_valid_move(grid, HardChooseMove(grid, mark)[1],
                               HardChooseMove(grid, mark)[2])
        /\ GameOver => check_winner(grid) = mark

\* a game won by the AI from a position where no single placement of its
\* mark completed a line
C30_Witness ==
    /\ ForcedWin(grid0, mark)
    /\ \A i \in EmptyIn(grid0) : check_winner(Place(grid0, i, mark)) # mark
    /\ check_winner(grid) = mark
    /\ op[1] = "ai_move"

\* ---------------------------------------------------------------------
\* Bounded play on the board
\* ---------------------------------------------------------------------

Empties(g) == Count(g, "")

\* C31: a make_move call that succeeds takes exactly one cell from the
\* empty ones and a failing one leaves the grid alone, reset gives all
\* size*size cells back, so at most size*size calls succeed between two
\* resets; is_full holds exactly when no empty cell is left, and from
\* then on every make_move call fails until reset.
C31_PlacementsBounded ==
    [][/\ op'[1] = "make_move" /\ ret' = TRUE =>
            /\ Empties(grid) >= 1
            /\ Empties(grid') = Empties(grid) - 1
       /\ op'[1] = "make_move" /\ ret' = FALSE => grid' = grid
       /\ op'[1] = "make_move" /\ is_full(grid) =>
            ret' = FALSE /\ is_full(grid')
       /\ op'[1] = "reset" => Empties(grid') = NumCells
       /\ is_full(grid') <=> Empties(grid') = 0
       /\ NumCells - Empties(grid') \in 0 .. Size * Size]_vars

\* A make_move call on an in-range cell of a full board has failed.
C31_Witness ==
    /\ is_full(grid)
    /\ Len(op) = 3 /\ op[1] = "make_move"
    /\ ~OutOfRange(op[2], op[3])
    /\ ret = FALSE

\* ---------------------------------------------------------------------
\* The records of the score file
\* ---------------------------------------------------------------------

NamesOf(sc) == {sc[k].name : k \in 1 .. Len(sc)}

\* C36: from the empty file, no call of get_player_score or
\* update_player_score (nor of get_leaderboard) removes a record: every
\* record of the file is still at its place, under its name, after the
\* call, and a call adds at most one record, for the name it was given and
\* only if that name had none; so the file never holds two records of one
\* name.
C36_OneRecordPerNameNoneRemoved ==
    [][/\ Len(scores') >= Len(scores)
       /\ \A k \in 1 .. Len(scores) : scores'[k].name = scores[k].name
       /\ Len(scores') <= Len(scores) + 1
       /\ Len(scores') = Len(scores) + 1 =>
             /\ op'[1] \in {"get_player_score", "update_player_score"}
             /\ scores'[Len(scores')].name = op'[2]
             /\ op'[2] \notin NamesOf(scores)
       /\ Cardinality(NamesOf(scores')) = Len(scores')]_vars

\* every name has its record and the last call updated a name that already
\* had games played
C36_Witness ==
    /\ NamesOf(scores) = Names
    /\ Len(scores) = Cardinality(Names)
    /\ op[1] = "update_player_score"
    /\ \E k \in 1 .. Len(scores) :
          scores[k].name = op[2] /\ scores[k].games_played >= 2

\* ---------------------------------------------------------------------
\* The session controller's screens and the board
\* ---------------------------------------------------------------------

BoardFresh(g, t, msg) == g = EmptyGrid /\ t = "X" /\ msg = ""

\* C33: whenever the screen shown is not the board, the board is empty, the
\* turn is 'X' and no message is kept.  The grid, the turn and the message
\* change only in steps taken in state 'board'; every step that enters
\* 'board' leaves a fresh board (reset_game); and every step that leaves
\* 'board' goes to the menu and leaves a fresh board (reset_game).
C33_FreshBoardOffBoard ==
    [][/\ state # "board" => BoardFresh(grid, turn, board_message)
       /\ state' # "board" => BoardFresh(grid', turn', board_message')
       /\ <<grid', turn', board_message'>> # <<grid, turn, board_message>> =>
             state = "board"
       /\ state # "board" /\ state' = "board" =>
             BoardFresh(grid', turn', board_message') /\ updates' = << >>
       /\ state = "board" /\ state' # "board" =>
             /\ state' = "menu"
             /\ BoardFresh(grid', turn', board_message')
             /\ updates' = << >>]_vars

\* back at the menu from a board that was drawn, in a session where the
\* machine's level was changed
C33_Witness ==
    /\ state = "menu"
    /\ op = <<"click", "Back">>
    /\ square_rects = "assigned"
    /\ play_mode = "ai"
    /\ level_selected = 2
    /\ BoardFresh(grid, turn, board_message)

\* the cells where the grids g and h differ
DiffCells(g, h) == {rc \in Rows \X Rows : g[rc[1]][rc[2]] # h[rc[1]][rc[2]]}

\* a step of the vs-machine game in which a click on a square was played
MachineGameClick ==
    /\ state = "board"
    /\ play_mode = "ai"
    /\ op'[1] = "click"
    /\ Len(op') >= 3
    /\ grid' # grid

\* C32: in vs-machine mode the human's click places 'X'; choose_move is
\* called only when, after that placement, the turn is 'O', the mark of the
\* AI player held is 'O' and the game is not over, and the move it returns
\* is placed as 'O'; it is called whenever the click left the game open;
\* and whenever the board screen waits for a click with the game not over,
\* the turn is 'X'.
C32_MachinePlaysOHumanPlaysX ==
    [][/\ MachineGameClick =>
            LET row == op'[2]
                col == op'[3]
                b1 == SetCell(grid, row, col, "X")
            IN  /\ turn = "X"
                /\ grid[row][col] = ""
                /\ grid'[row][col] = "X"
                /\ IF Len(op') = 4
                   THEN /\ ~Finished(b1)
                        /\ mark = "O"
                        /\ op'[4] # NoMove
                        /\ b1[op'[4][1]][op'[4][2]] = ""
                        /\ grid' = SetCell(b1, op'[4][1], op'[4][2], "O")
                        /\ DiffCells(grid, grid') = {<<row, col>>, op'[4]}
                   ELSE /\ Finished(b1)
                        /\ grid' = b1
       /\ (state' = "board" /\ play_mode' = "ai" /\ ~Finished(grid')) =>
             turn' = "X"
       /\ (state = "board" /\ play_mode = "ai" /\ ~Finished(grid)) =>
             turn = "X"]_vars

\* the machine, playing at the level Epic!, has answered twice and the game
\* is still open
C32_Witness ==
    /\ state = "board"
    /\ play_mode = "ai"
    /\ level = "hard"
    /\ Len(op) = 4
    /\ Count(grid, "O") >= 2
    /\ ~Finished(grid)
    /\ turn = "X"

\* the player get_ai_player builds for the level button i with the mark 'O'
HighlightedPlayer(i) == get_ai_player(levels[i + 1][3], "O", 1)[2]

\* C34: in every state of the controller self.ai is the player of the
\* highlighted level, levels[level_selected] (Easy: RandomAIPlayer, Medium:
\* MediumAIPlayer, Epic!: HardAIPlayer), with the mark 'O': before any level
\* button was clicked (Easy, the player main passes), after each level click,
\* and on every other screen afterwards.
C34_AiMatchesHighlightedLevel ==
    /\ level_selected \in 0 .. Len(levels) - 1
    /\ HighlightedPlayer(level_selected).class =
          (CASE levels[level_selected + 1][1] = "Easy" -> "RandomAIPlayer"
             [] levels[level_selected + 1][1] = "Medium" -> "MediumAIPlayer"
             [] levels[level_selected + 1][1] = "Epic!" -> "HardAIPlayer")
    /\ level = LevelOfClass(HighlightedPlayer(level_selected).class)
    /\ level = levels[level_selected + 1][3]
    /\ mark = "O"

\* the vs-machine screen entered again, after a game played against the
\* level Medium
C34_Witness ==
    /\ state = "vs_machine"
    /\ op = <<"click", "Play vs Machine">>
    /\ square_rects = "assigned"
    /\ level_selected = 1
    /\ level = "medium"

\* C35: whatever the order of the events of a frame, a click handled in
\* state 'vs_machine' finds level_rects assigned by a draw of that screen,
\* and a click handled in state 'board' finds square_rects assigned (the
\* steps that leave the rectangles as they are are the handled clicks; the
\* other steps are the draws).
C35_RectsAssignedBeforeRead ==
    [][rectVars' = rectVars =>
          /\ state = "vs_machine" => level_rects = "assigned"
          /\ state = "board" => square_rects = "assigned"]_vars

\* Continue and a second click came in one batch of the first visit: the
\* click was handled on the board screen before draw_board ever ran
C35_Witness ==
    /\ pc = "raised"
    /\ state = "board"
    /\ square_rects = "unassigned"
    /\ op = <<"click", "AttributeError">>

\* ---------------------------------------------------------------------
\* Termination of HardAIPlayer.choose_move
\* ---------------------------------------------------------------------

Searching == level = "hard" /\ pc \in {"root", "enter", "loop"}

\* the number of minimax calls in progress: those in their loop and the one
\* being entered
Depth == Len(stack) + (IF pc = "enter" THEN 1 ELSE 0)

\* How far the search has come, one entry for choose_move's loop and one
\* for each minimax call in its loop, the outermost first: a loop that is
\* about to look for its next cell from position p counts 2p + 1, a loop
\* waiting for the call it made on the cell p counts 2p + 2, and
\* choose_move after its loop counts more than any of these.
Progress ==
    <<IF pc = "root" THEN 2 * pos + 1
      ELSE IF pc \in {"enter", "loop"} THEN 2 * pos + 2
      ELSE 2 * NumCells + 3>>
    \o [k \in 1 .. Len(stack) |->
          IF k = Len(stack) /\ pc = "loop" THEN 2 * stack[k].pos + 1
          ELSE 2 * stack[k].pos + 2]

\* the entry i of the sequence sq, 0 beyond its end
Entry(sq, i) == IF i <= Len(sq) THEN sq[i] ELSE 0

\* sq1 comes before sq2 in the lexicographic order
RECURSIVE LexLessFrom(_, _, _)
LexLessFrom(sq1, sq2, i) ==
    IF i > Len(sq1) /\ i > Len(sq2) THEN FALSE
    ELSE IF Entry(sq1, i) < Entry(sq2, i) THEN TRUE
    ELSE IF Entry(sq1, i) > Entry(sq2, i) THEN FALSE
    ELSE LexLessFrom(sq1, sq2, i + 1)

\* the loop position of the node that is running: choose_move's or that of
\* the innermost minimax call
NodePos == IF stack = << >> THEN pos ELSE stack[Len(stack)].pos

\* C37: HardAIPlayer.choose_move terminates on every board, with or without
\* a time limit.  While it runs, the number of minimax calls in progress is
\* at most the number of cells that were empty at the call, and the marks
\* it has placed are one per call in progress; some step is always possible
\* (the time test can only be found true when there is a limit); every
\* step moves the search forward in the lexicographic order of its loop
\* positions, which are at most NumCells each, so only finitely many steps
\* follow one another; a node places its mark on the first empty cell from
\* its loop position, and returns from its loop only when no empty cell is
\* left from there.
C37_HardSearchTerminates ==
    [][Searching =>
          LET atCall == Count(grid0, "")
              before == Count(grid, "")
              after == Count(grid', "")
              next == NextValid(grid, NodePos)
          IN  /\ Depth <= atCall
              /\ atCall - before = Depth
              /\ pc = "loop" => stack # << >>
              /\ (pc = "enter" /\ expired) => max_time > 0
              /\ pos \in 0 .. NumCells
              /\ \A k \in 1 .. Len(stack) : stack[k].pos \in 0 .. NumCells
              /\ pc' \in {"root", "enter", "loop", "done"}
              /\ LexLessFrom(Progress, Progress', 1)
              /\ after < before =>
                    /\ pc \in {"root", "loop"} /\ pc' = "enter"
                    /\ next < NumCells
                    /\ DiffCells(grid, grid') = {CellAt(next)}
                    /\ after = before - 1
              /\ (pc \in {"root", "loop"} /\ pc' # "enter") =>
                    next = NumCells]_vars

\* the innermost call possible: choose_move without a time limit has
\* filled a board that had three empty cells or more
C37_Witness ==
    /\ level = "hard"
    /\ max_time = 0
    /\ pc = "enter"
    /\ Count(grid0, "") >= 3
    /\ Depth = Count(grid0, "")
    /\ is_full(grid)
    /\ check_winner(grid) = None

=============================================================================
